---- MODULE Spec2Model ----
(***************************************************************************)
(* A model of ompl_interface::ModelBasedPlanningContext and of the         *)
(* ompl::geometric::Follower planner defined in                            *)
(* ompl/ompl_interface/src/model_based_planning_context.cpp.               *)
(*                                                                         *)
(* One thread (the caller) runs solve() or follow() on a context; another  *)
(* thread may call terminateSolve() at any moment.  The caller's position  *)
(* in the code is pc.                                                      *)
(***************************************************************************)
EXTENDS Integers, Sequences, FiniteSets, TLC

\* ------------------------------------------------------------------ bounds
\* largest value of the count argument of solve()
MaxCount == 4
\* largest value max_planning_threads_ is set to
MaxThreads == 2
\* number of solve()/follow() calls made on the context
MaxCalls == 2

\* ------------------------------------------------------------ program values
NULL == 0

PlannerStatus ==
    {"EXACT_SOLUTION", "APPROXIMATE_SOLUTION", "TIMEOUT",
     "INVALID_START", "INVALID_GOAL", "UNRECOGNIZED_GOAL_TYPE"}

VARIABLES
    \* ---- the calling thread
    pc,                     \* position of the caller in solve()/follow()
    op,                     \* "none", "solve" or "follow": the running call
    count,                  \* the count argument of the running solve()
    calls,                  \* calls made so far; call k owns condition k
    ret,                    \* "none", "true", "false", "exception"
    \* ---- fields of the context
    max_planning_threads_,
    ptc_,                   \* NULL or the registered termination condition
    planners,               \* planners held by ompl_parallel_plan_
    solutions,              \* solution paths of the problem definition
    \* ---- locals of solve()/follow()
    ptcAlive,               \* the stack-local condition in scope, or NULL
    terminated,             \* terminate() was called on that condition
    expired,                \* its wall-clock deadline has passed
    result,
    batch_n,                \* int n of the batched branch
    batch_i,                \* int i of the batched branch
    found,                  \* the running planner(s) hold an exact solution
    status,                 \* PlannerStatus of the last planner run
    \* ---- history
    batches,                \* parallel runs of this call: pool size and outcome
    termCalled,             \* terminateSolve() ran since this call began
    termNull,               \* terminateSolve() ran while ptc_ was NULL
    danglingDeref,          \* terminateSolve() used a condition out of scope
    \* ---- the follow samplers of the context
    follow_samplers_,       \* how many samplers S1..Sn are queued
    \* ---- locals of Follower::follow
    sets,                   \* sets[l]: the states of layer l, l in 0..n+1
    connections,            \* connections[l][j]: the k with an edge j -> k
    is_start,               \* is_start[l][j] in {0, 1}
    work_area,              \* the scratch state, or NULL
    fresult,                \* base::PlannerStatus result
    seed_i,                 \* loop index i of the seeding loop
    adding_goals,
    solved,
    \* ---- the state allocator of the space information
    nextId,                 \* the next state cloneState/allocState returns
    live,                   \* states allocated and not freed
    badFree,                \* a state was freed twice or never allocated
    \* ---- the motion validator
    motionTrue,             \* pairs for which checkMotion returned true
    motionFalse,            \* pairs for which checkMotion returned false
    \* ---- what the running Follower::follow has called so far
    samplerCalled,          \* sample() or project() of a follow sampler
    goalDrawn,              \* pis_.nextGoal
    expandDraw,             \* a draw made by the expansion loop
    goalRetried,            \* pis_.nextGoal() again after it had given nothing
    \* ---- the specification and the constraints of the context
    constraint_sampler_manager_,  \* spec_ holds a sampler manager
    constraints_library_,   \* spec_ holds an approximation library
    path_constraints_,      \* <<>> when null, else <<the constraint set>>
    path_constraints_msg_,
    goal_constraints_,      \* the non-empty merged goal sets, in order
    goal,                   \* the goal of ompl_simple_setup_
    \* ---- the last configuration call, its arguments and what it returned
    cfg_op,
    sgc_ret,                \* setGoalConstraints: "none", "true", "false"
    error,                  \* error->val after the call
    errorGiven,             \* an error output was supplied
    in_goals,               \* the goal_constraints argument
    in_path,                \* the path_constraints argument
    in_sel,                 \* in_sel[i]: selectSampler gave a sampler for set i
    alloc_ret,              \* the sampler allocPathConstrainedSampler returned
    alloc_own,              \* it was asked for the context's own state space
    libAnswer,              \* what the approximation library gave, if asked
    mgrAnswer,              \* what the sampler manager gave, if asked
    mgrQuery,               \* the constraints the manager was asked about
    \* ---- the planning problem of ompl_simple_setup_ and the state space
    start_states,           \* number of start states of the problem
    validity_checker,       \* a state validity checker is set
    planner_allocator,      \* a planner allocator is set
    setup_called,           \* the last configure() ran ompl_simple_setup_.setup()
    projection,             \* the default projection registered on the space
    config_,                \* spec_.config_
    \* ---- the last setProjectionEvaluator call
    peval,                  \* its argument, a string
    pe_ret,                 \* what getProjectionEvaluator gave it
    pe_installed,           \* it registered a projection
    \* ---- history of the follow() calls
    paths_before,           \* solution paths visible when the last call began
    \* ---- the last propagateStartInfo call made on its own
    prop_at,                \* <<set_index, elem_index>>, or <<>> before it
    prop_before,            \* is_start as it was handed in
    prop_depth              \* the deepest nesting of calls it reached

ctxVars ==
    <<pc, op, count, calls, ret, max_planning_threads_, ptc_, planners,
      solutions, ptcAlive, terminated, expired, result, batch_n, batch_i,
      found, status, batches, termCalled, termNull, danglingDeref>>

folVars ==
    <<follow_samplers_, sets, connections, is_start, work_area, fresult,
      seed_i, adding_goals, solved, nextId, live, badFree, motionTrue,
      motionFalse, samplerCalled, goalDrawn, expandDraw, goalRetried>>

cfgVars ==
    <<constraint_sampler_manager_, constraints_library_, path_constraints_,
      path_constraints_msg_, goal_constraints_, goal, cfg_op, sgc_ret, error,
      errorGiven, in_goals, in_path, in_sel, alloc_ret, alloc_own, libAnswer,
      mgrAnswer, mgrQuery>>

setupVars ==
    <<start_states, validity_checker, planner_allocator, setup_called,
      projection, config_, peval, pe_ret, pe_installed, paths_before>>

propVars == <<prop_at, prop_before, prop_depth>>

vars == <<ctxVars, folVars, cfgVars, setupVars, propVars>>

\* ---------------------------------------------------------------- helpers

\* ob::PlannerTerminationCondition::operator(): the timed condition is true
\* once its deadline passed or terminate() was called on it.
ptc == terminated \/ expired

\* The path a planner adds to the problem definition (states are opaque).
PlannerPath == <<0>>

\* variant: the pool is not cleared before a batch
clearPlannersKeeps(p) == p

\* ompl_parallel_plan_.clearPlanners()
clearPlanners(p) == 0

\* ompl_parallel_plan_.addPlannerAllocator / addPlanner, k times
addPlanners(p, k) == p + k

\* unsigned division and remainder; by zero the behaviour is undefined and
\* any value may come out (the crash is a separate outcome of the action).
Quotients(a, b) == IF b # 0 THEN {a \div b} ELSE 0..MaxCount
Remainders(a, b) == IF b # 0 THEN {a % b} ELSE 0..MaxCount

\* What a planner run may return: an exact solution once one was found, a
\* start/goal error at any time, and TIMEOUT or an approximate solution only
\* when the termination condition stopped it.
Outcomes ==
    IF found THEN {"EXACT_SOLUTION"}
    ELSE {"INVALID_START", "INVALID_GOAL"}
         \cup (IF ptc THEN {"TIMEOUT", "APPROXIMATE_SOLUTION"} ELSE {})

IsExact(s) == s = "EXACT_SOLUTION"

SolvingPcs == {"single_solve", "parallel_solve", "batch_solve", "rem_solve"}

\* ------------------------------------------------------------------- Init
\* The state after the constructor (max_planning_threads_(0), no condition
\* registered); no call is running.
InitCtx ==
    /\ pc = "idle" /\ op = "none" /\ count = 0 /\ calls = 0 /\ ret = "none"
    /\ max_planning_threads_ = 0
    /\ ptc_ = NULL
    /\ planners = 0
    /\ solutions = <<>>
    /\ ptcAlive = NULL /\ terminated = FALSE /\ expired = FALSE
    /\ result = FALSE /\ batch_n = 0 /\ batch_i = 0
    /\ found = FALSE /\ status = "none"
    /\ batches = <<>>
    /\ termCalled = FALSE /\ termNull = FALSE /\ danglingDeref = FALSE

\* No follow() call is running: the Follower's locals do not exist.
InitFollower ==
    /\ follow_samplers_ = 0
    /\ sets = <<>> /\ connections = <<>> /\ is_start = <<>>
    /\ work_area = NULL /\ fresult = "none" /\ seed_i = 0
    /\ adding_goals = FALSE /\ solved = FALSE
    /\ nextId = 1 /\ live = {} /\ badFree = FALSE
    /\ motionTrue = {} /\ motionFalse = {}
    /\ samplerCalled = FALSE /\ goalDrawn = FALSE /\ expandDraw = FALSE
    /\ goalRetried = FALSE

\* the goal of ompl_simple_setup_ when none is set
NoGoal == [type |-> "null", members |-> <<>>]

\* No constraints were set and no configuration call was made yet.
InitConstraints ==
    /\ path_constraints_ = <<>>
    /\ path_constraints_msg_ = {}
    /\ goal_constraints_ = <<>>
    /\ goal = NoGoal
    /\ cfg_op = "none"
    /\ sgc_ret = "none" /\ error = "unset" /\ errorGiven = FALSE
    /\ in_goals = <<>> /\ in_path = {} /\ in_sel = <<>>
    /\ alloc_ret = "none" /\ alloc_own = FALSE
    /\ libAnswer = "not_asked" /\ mgrAnswer = "not_asked" /\ mgrQuery = {}

\* what getProjectionEvaluator gives when it gives no evaluator
NoProjection == [kind |-> "none", arg |-> <<>>]

\* spec_.config_ without entries
EmptyConfig == [projection_evaluator |-> <<>>, type |-> FALSE, params |-> FALSE]

\* No start state, validity checker, planner allocator or projection is set
\* and setProjectionEvaluator was not called yet.
InitSetup ==
    /\ start_states = 0
    /\ validity_checker = FALSE
    /\ planner_allocator = FALSE
    /\ setup_called = FALSE
    /\ projection = NoProjection
    /\ peval = <<>> /\ pe_ret = NoProjection /\ pe_installed = FALSE
    /\ paths_before = 0
    /\ prop_at = <<>> /\ prop_before = <<>> /\ prop_depth = 0

\* a context whose specification has a sampler manager, no library and an
\* empty configuration
Init ==
    /\ InitCtx /\ InitFollower /\ InitConstraints /\ InitSetup
    /\ config_ = EmptyConfig
    /\ constraint_sampler_manager_ = TRUE
    /\ constraints_library_ = FALSE

\* --------------------------------------------- termination registration

registerTerminationCondition(c) == ptc_' = c

unregisterTerminationCondition == ptc_' = NULL

\* ob::timedPlannerTerminationCondition(...): a fresh stack-local condition
NewCondition ==
    /\ ptcAlive' = calls
    /\ terminated' = FALSE
    /\ expired' = FALSE

\* variant: terminateSolve() sets a cancel flag whether or not a condition
\* is registered
terminateEffectUnconditional ==
    /\ terminated' = TRUE
    /\ UNCHANGED <<danglingDeref, pc>>

\* The effect of terminateSolve() on the program state.
terminateEffect ==
    IF ptc_ = NULL
    THEN UNCHANGED <<terminated, danglingDeref, pc>>
    ELSE IF ptc_ = ptcAlive
    THEN /\ terminated' = TRUE
         /\ UNCHANGED <<danglingDeref, pc>>
    ELSE \* ptc_ points to a condition whose frame is gone: undefined
         /\ danglingDeref' = TRUE
         /\ \/ pc' = pc
            \/ pc' = "crashed"
         /\ UNCHANGED terminated

\* terminateSolve(), called from another thread
terminateSolve ==
    /\ pc # "crashed"
    /\ terminateEffect
    /\ termCalled' = (termCalled \/ pc # "idle")
    /\ termNull' = (termNull \/ ptc_ = NULL)
    /\ UNCHANGED <<op, count, calls, ret, max_planning_threads_, ptc_,
                   planners, solutions, ptcAlive, expired, result, batch_n,
                   batch_i, found, status, batches>>
    /\ UNCHANGED <<folVars, cfgVars, setupVars, propVars>>

\* the deadline of the timed condition passes
Expire ==
    /\ pc # "crashed"
    /\ ptcAlive # NULL
    /\ ~expired
    /\ expired' = TRUE
    /\ UNCHANGED <<pc, op, count, calls, ret, max_planning_threads_, ptc_,
                   planners, solutions, ptcAlive, terminated, result,
                   batch_n, batch_i, found, status, batches, termCalled,
                   termNull, danglingDeref>>
    /\ UNCHANGED <<folVars, cfgVars, setupVars, propVars>>

\* ---------------------------------------------------------------- solve

setMaximumPlanningThreads(m) ==
    /\ pc = "idle"
    /\ max_planning_threads_' = m
    /\ UNCHANGED <<pc, op, count, calls, ret, ptc_, planners, solutions,
                   ptcAlive, terminated, expired, result, batch_n, batch_i,
                   found, status, batches, termCalled, termNull,
                   danglingDeref>>
    /\ UNCHANGED <<folVars, cfgVars, setupVars, propVars>>

\* entry of solve(timeout, count)
SolveCall(c) ==
    /\ pc = "idle"
    /\ calls < MaxCalls
    /\ pc' = "preSolve"
    /\ op' = "solve"
    /\ count' = c
    /\ calls' = calls + 1
    /\ ret' = "none"
    /\ batches' = <<>>
    /\ termCalled' = FALSE
    /\ status' = "none"
    /\ UNCHANGED <<max_planning_threads_, ptc_, planners, solutions,
                   ptcAlive, terminated, expired, result, batch_n, batch_i,
                   found, termNull, danglingDeref>>
    /\ UNCHANGED <<folVars, cfgVars, setupVars, propVars>>

\* variant: preSolve() leaves the solution paths of the previous call
preSolveKeepsPaths ==
    /\ pc = "preSolve"
    /\ result' = FALSE
    /\ pc' = IF op = "solve" THEN "solve_dispatch" ELSE "follow_setup"
    /\ UNCHANGED <<op, count, calls, ret, max_planning_threads_, ptc_,
                   planners, ptcAlive, terminated, expired, batch_n, batch_i,
                   found, status, batches, termCalled, termNull,
                   danglingDeref, solutions>>
    /\ UNCHANGED <<folVars, cfgVars, setupVars, propVars>>

\* preSolve(): clear previously computed solutions, clear the planner
preSolve ==
    /\ pc = "preSolve"
    /\ solutions' = <<>>
    /\ result' = FALSE
    /\ pc' = IF op = "solve" THEN "solve_dispatch" ELSE "follow_setup"
    /\ UNCHANGED <<op, count, calls, ret, max_planning_threads_, ptc_,
                   planners, ptcAlive, terminated, expired, batch_n, batch_i,
                   found, status, batches, termCalled, termNull,
                   danglingDeref>>
    /\ UNCHANGED <<folVars, cfgVars, setupVars, propVars>>

\* count <= 1: register and start the single planner run
SolveOnce ==
    /\ pc = "solve_dispatch"
    /\ count <= 1
    /\ NewCondition
    /\ registerTerminationCondition(calls)
    /\ found' = FALSE
    /\ pc' = "single_solve"
    /\ UNCHANGED <<op, count, calls, ret, max_planning_threads_, planners,
                   solutions, result, batch_n, batch_i, status, batches,
                   termCalled, termNull, danglingDeref>>
    /\ UNCHANGED <<folVars, cfgVars, setupVars, propVars>>

\* 1 < count <= max_planning_threads_: one parallel run of count planners
SolveParallel ==
    /\ pc = "solve_dispatch"
    /\ count > 1
    /\ count <= max_planning_threads_
    /\ planners' = addPlanners(clearPlanners(planners), count)
    /\ NewCondition
    /\ registerTerminationCondition(calls)
    /\ found' = FALSE
    /\ pc' = "parallel_solve"
    /\ UNCHANGED <<op, count, calls, ret, max_planning_threads_, solutions,
                   result, batch_n, batch_i, status, batches, termCalled,
                   termNull, danglingDeref>>
    /\ UNCHANGED <<folVars, cfgVars, setupVars, propVars>>

\* count > max_planning_threads_: register, n = count / max_planning_threads_
SolveBatched ==
    /\ pc = "solve_dispatch"
    /\ count > 1
    /\ count > max_planning_threads_
    /\ NewCondition
    /\ registerTerminationCondition(calls)
    /\ \/ /\ \E q \in Quotients(count, max_planning_threads_) : batch_n' = q
          /\ result' = TRUE
          /\ batch_i' = 0
          /\ pc' = "batch_loop"
       \/ /\ max_planning_threads_ = 0
          /\ pc' = "crashed"
          /\ UNCHANGED <<batch_n, batch_i, result>>
    /\ UNCHANGED <<op, count, calls, ret, max_planning_threads_, planners,
                   solutions, found, status, batches, termCalled, termNull,
                   danglingDeref>>
    /\ UNCHANGED <<folVars, cfgVars, setupVars, propVars>>

\* one iteration of the loop over full batches begins
BatchStart ==
    /\ pc = "batch_loop"
    /\ batch_i < batch_n /\ ~ptc
    /\ planners' = addPlanners(clearPlanners(planners), max_planning_threads_)
    /\ found' = FALSE
    /\ pc' = "batch_solve"
    /\ UNCHANGED <<op, count, calls, ret, max_planning_threads_, ptc_,
                   solutions, ptcAlive, terminated, expired, result, batch_n,
                   batch_i, status, batches, termCalled, termNull,
                   danglingDeref>>
    /\ UNCHANGED <<folVars, cfgVars, setupVars, propVars>>

\* the loop over full batches ends; n = count % max_planning_threads_
BatchLoopExit ==
    /\ pc = "batch_loop"
    /\ ~(batch_i < batch_n /\ ~ptc)
    /\ \/ /\ \E r \in Remainders(count, max_planning_threads_) : batch_n' = r
          /\ pc' = "remainder"
       \/ /\ max_planning_threads_ = 0
          /\ pc' = "crashed"
          /\ UNCHANGED batch_n
    /\ UNCHANGED <<op, count, calls, ret, max_planning_threads_, ptc_,
                   planners, solutions, ptcAlive, terminated, expired, result,
                   batch_i, found, status, batches, termCalled, termNull,
                   danglingDeref>>
    /\ UNCHANGED <<folVars, cfgVars, setupVars, propVars>>

\* if (n && ptc() == false): the final partial batch begins
RemainderStart ==
    /\ pc = "remainder"
    /\ batch_n # 0 /\ ~ptc
    /\ planners' = addPlanners(clearPlanners(planners), batch_n)
    /\ found' = FALSE
    /\ pc' = "rem_solve"
    /\ UNCHANGED <<op, count, calls, ret, max_planning_threads_, ptc_,
                   solutions, ptcAlive, terminated, expired, result, batch_n,
                   batch_i, status, batches, termCalled, termNull,
                   danglingDeref>>
    /\ UNCHANGED <<folVars, cfgVars, setupVars, propVars>>

RemainderSkip ==
    /\ pc = "remainder"
    /\ ~(batch_n # 0 /\ ~ptc)
    /\ pc' = "unregister"
    /\ UNCHANGED <<op, count, calls, ret, max_planning_threads_, ptc_,
                   planners, solutions, ptcAlive, terminated, expired, result,
                   batch_n, batch_i, found, status, batches, termCalled,
                   termNull, danglingDeref>>
    /\ UNCHANGED <<folVars, cfgVars, setupVars, propVars>>

\* a running planner finds an exact solution (only while not terminated)
PlannerProgress ==
    /\ pc \in SolvingPcs
    /\ ~ptc /\ ~found
    /\ found' = TRUE
    /\ UNCHANGED <<pc, op, count, calls, ret, max_planning_threads_, ptc_,
                   planners, solutions, ptcAlive, terminated, expired, result,
                   batch_n, batch_i, status, batches, termCalled, termNull,
                   danglingDeref>>
    /\ UNCHANGED <<folVars, cfgVars, setupVars, propVars>>

\* the success of one planner run, as solve() reads it
RunSucceeded(s) == IsExact(s)

\* result of the single run and of the one parallel run
SingleResult(s) == RunSucceeded(s)

\* variant: any batch with an exact solution makes the call succeed
BatchResultAnyOf(res, s) == res \/ RunSucceeded(s)

\* result = result && r
BatchResult(res, s) == res /\ RunSucceeded(s)

\* ompl_simple_setup_.solve(ptc) returns
SingleReturn ==
    /\ pc = "single_solve"
    /\ \E s \in Outcomes :
          /\ status' = s
          /\ result' = SingleResult(s)
          /\ solutions' = IF IsExact(s) THEN <<PlannerPath>> ELSE solutions
    /\ pc' = "unregister"
    /\ UNCHANGED <<op, count, calls, ret, max_planning_threads_, ptc_,
                   planners, ptcAlive, terminated, expired, batch_n, batch_i,
                   found, batches, termCalled, termNull, danglingDeref>>
    /\ UNCHANGED <<folVars, cfgVars, setupVars, propVars>>

\* ompl_parallel_plan_.solve(ptc, 1, count, true) returns
ParallelReturn ==
    /\ pc = "parallel_solve"
    /\ \E s \in Outcomes :
          /\ status' = s
          /\ result' = SingleResult(s)
          /\ batches' = Append(batches, [size |-> count, pool |-> planners,
                                         exact |-> IsExact(s)])
          /\ solutions' = IF IsExact(s) THEN <<PlannerPath>> ELSE solutions
    /\ pc' = "unregister"
    /\ UNCHANGED <<op, count, calls, ret, max_planning_threads_, ptc_,
                   planners, ptcAlive, terminated, expired, batch_n, batch_i,
                   found, termCalled, termNull, danglingDeref>>
    /\ UNCHANGED <<folVars, cfgVars, setupVars, propVars>>

\* ompl_parallel_plan_.solve(ptc, 1, max_planning_threads_, true) returns
BatchReturn ==
    /\ pc = "batch_solve"
    /\ \E s \in Outcomes :
          /\ status' = s
          /\ result' = BatchResult(result, s)
          /\ batches' = Append(batches, [size |-> max_planning_threads_,
                                         pool |-> planners,
                                         exact |-> IsExact(s)])
          /\ solutions' = IF IsExact(s) THEN <<PlannerPath>> ELSE solutions
    /\ batch_i' = batch_i + 1
    /\ pc' = "batch_loop"
    /\ UNCHANGED <<op, count, calls, ret, max_planning_threads_, ptc_,
                   planners, ptcAlive, terminated, expired, batch_n, found,
                   termCalled, termNull, danglingDeref>>
    /\ UNCHANGED <<folVars, cfgVars, setupVars, propVars>>

\* ompl_parallel_plan_.solve(ptc, 1, n, true) returns
RemainderReturn ==
    /\ pc = "rem_solve"
    /\ \E s \in Outcomes :
          /\ status' = s
          /\ result' = BatchResult(result, s)
          /\ batches' = Append(batches, [size |-> batch_n, pool |-> planners,
                                         exact |-> IsExact(s)])
          /\ solutions' = IF IsExact(s) THEN <<PlannerPath>> ELSE solutions
    /\ pc' = "unregister"
    /\ UNCHANGED <<op, count, calls, ret, max_planning_threads_, ptc_,
                   planners, ptcAlive, terminated, expired, batch_n, batch_i,
                   found, termCalled, termNull, danglingDeref>>
    /\ UNCHANGED <<folVars, cfgVars, setupVars, propVars>>

\* The planner or the parallel-plan harness throws: solve() has no handler,
\* so the frame unwinds (the condition goes out of scope) and the exception
\* reaches the caller; nothing unregisters ptc_.
PlannerThrows ==
    /\ pc \in SolvingPcs
    /\ ptcAlive' = NULL /\ terminated' = FALSE /\ expired' = FALSE
    /\ result' = FALSE /\ batch_n' = 0 /\ batch_i' = 0 /\ found' = FALSE
    /\ ret' = "exception"
    /\ op' = "none"
    /\ pc' = "idle"
    /\ UNCHANGED <<count, calls, max_planning_threads_, ptc_, planners,
                   solutions, status, batches, termCalled, termNull,
                   danglingDeref>>
    /\ UNCHANGED <<folVars, cfgVars, setupVars, propVars>>

\* unregisterTerminationCondition(), then the condition's scope ends
Unregister ==
    /\ pc = "unregister"
    /\ unregisterTerminationCondition
    /\ ptcAlive' = NULL /\ terminated' = FALSE /\ expired' = FALSE
    /\ pc' = "postSolve"
    /\ UNCHANGED <<op, count, calls, ret, max_planning_threads_, planners,
                   solutions, result, batch_n, batch_i, found, status,
                   batches, termCalled, termNull, danglingDeref>>
    /\ UNCHANGED <<folVars, cfgVars, setupVars, propVars>>

\* postSolve(); return result
postSolve ==
    /\ pc = "postSolve"
    /\ ret' = IF result THEN "true" ELSE "false"
    /\ result' = FALSE /\ batch_n' = 0 /\ batch_i' = 0 /\ found' = FALSE
    /\ op' = "none"
    /\ pc' = "idle"
    /\ UNCHANGED <<count, calls, max_planning_threads_, ptc_, planners,
                   solutions, ptcAlive, terminated, expired, status, batches,
                   termCalled, termNull, danglingDeref>>
    /\ UNCHANGED <<folVars, cfgVars, setupVars, propVars>>

NextSolve ==
    \/ \E m \in 0..MaxThreads : setMaximumPlanningThreads(m)
    \/ \E c \in 0..MaxCount : SolveCall(c)
    \/ preSolve
    \/ SolveOnce
    \/ SolveParallel
    \/ SolveBatched
    \/ BatchStart
    \/ BatchLoopExit
    \/ RemainderStart
    \/ RemainderSkip
    \/ PlannerProgress
    \/ SingleReturn
    \/ ParallelReturn
    \/ BatchReturn
    \/ RemainderReturn
    \/ PlannerThrows
    \/ Unregister
    \/ postSolve
    \/ terminateSolve
    \/ Expire

Spec == Init /\ [][NextSolve]_vars

\* ======================================================================
\* follow() and ompl::geometric::Follower
\* ======================================================================
\* Layers are numbered 0..n+1 as in the code (n = follow_samplers_); the
\* elements of a layer, and the k of an edge, are numbered from 1 here
\* where the code numbers them from 0.

\* largest number of follow samplers queued on the context
MaxSamplers == 1
\* largest number of valid start states of the problem definition
MaxStarts == 2
\* largest number of states the expansion loop adds in one call
MaxAdded == 1
\* number of follow() calls made on the context
MaxFollowCalls == 1

callVars == <<op, count, calls, ret>>
ptcVars == <<ptc_, ptcAlive, terminated, expired>>
histVars == <<termCalled, termNull, danglingDeref>>
batchVars ==
    <<max_planning_threads_, planners, batch_n, batch_i, found, batches>>
allocVars == <<nextId, live, badFree>>
motionVars == <<motionTrue, motionFalse>>

\* unsigned int goal_index = sets.size() - 1
goal_index == follow_samplers_ + 1

\* connections.size()
ConnSize(conn) == Cardinality(DOMAIN conn)

\* states the expansion loop added so far (every later layer starts with one)
Added(ss) ==
    LET RECURSIVE Sum(_)
        Sum(l) == IF l > goal_index THEN 0 ELSE (Len(ss[l]) - 1) + Sum(l + 1)
    IN Sum(1)

Reverse(q) == [k \in 1..Len(q) |-> q[Len(q) + 1 - k]]

\* si_->checkMotion on the pairs P: each pair has one answer, the same
\* every time it is asked during a call.
Oracle(P) ==
    {m \in [P -> BOOLEAN] :
        \A p \in P : (p \in motionTrue => m[p]) /\ (p \in motionFalse => ~m[p])}

Asked(m, P) ==
    /\ motionTrue' = motionTrue \cup {p \in P : m[p]}
    /\ motionFalse' = motionFalse \cup {p \in P : ~m[p]}

RECURSIVE propagateStartInfo(_, _, _, _)
RECURSIVE PropagateLoop(_, _, _, _, _)

\* variant: the successors of the element are marked and not followed
propagateStartInfoOneStep(set_index, elem_index, iss, conn) ==
    IF ConnSize(conn) <= set_index
    THEN iss
    ELSE LET c == conn[set_index][elem_index]
         IN  [iss EXCEPT ![set_index + 1] =
                 [k \in 1..Len(@) |->
                     IF \E e \in 1..Len(c) : c[e] = k THEN 1 ELSE @[k]]]

\* Follower::propagateStartInfo; returns is_start
propagateStartInfo(set_index, elem_index, iss, conn) ==
    IF ConnSize(conn) <= set_index
    THEN iss
    ELSE PropagateLoop(1, conn[set_index][elem_index], set_index + 1, iss, conn)

\* variant: a successor already marked 1 is not followed
RECURSIVE PropagateLoopSkipMarked(_, _, _, _, _)
PropagateLoopSkipMarked(i, c, set_index, iss, conn) ==
    IF i > Len(c)
    THEN iss
    ELSE PropagateLoopSkipMarked(i + 1, c, set_index,
             IF iss[set_index][c[i]] = 1
             THEN iss
             ELSE propagateStartInfo(set_index, c[i],
                      [iss EXCEPT ![set_index][c[i]] = 1], conn),
             conn)

\* its loop over c = connections[set_index][elem_index], after ++set_index
PropagateLoop(i, c, set_index, iss, conn) ==
    IF i > Len(c)
    THEN iss
    ELSE PropagateLoop(i + 1, c, set_index,
             propagateStartInfo(set_index, c[i],
                                [iss EXCEPT ![set_index][c[i]] = 1], conn),
             conn)

RECURSIVE findSolutionPath(_, _, _, _, _)
RECURSIVE FindLoop(_, _, _, _, _, _)

\* Follower::findSolutionPath; returns [ok, path]
findSolutionPath(path, set_index, elem_index, ss, conn) ==
    IF set_index = ConnSize(conn)
    THEN [ok |-> TRUE, path |-> Append(path, ss[set_index][elem_index])]
    ELSE FindLoop(1, path, set_index, elem_index, ss, conn)

\* its loop over c = connections[set_index][elem_index]
FindLoop(i, path, set_index, elem_index, ss, conn) ==
    LET c == conn[set_index][elem_index] IN
    IF i > Len(c)
    THEN [ok |-> FALSE, path |-> path]
    ELSE LET r == findSolutionPath(path, set_index + 1, c[i], ss, conn) IN
         IF r.ok
         THEN [ok |-> TRUE,
               path |-> Append(r.path, ss[set_index][elem_index])]
         ELSE FindLoop(i + 1, path, set_index, elem_index, ss, conn)

\* variant: the path is recorded as the recursion appended it
RecordedPathUnreversed(pg) == pg

\* the path as handed to addSolutionPath: pg->reverse()
RecordedPath(pg) == Reverse(pg)

\* Follower::computeSolution; returns the solution paths of the problem
\* definition afterwards
computeSolution(ss, conn, sols) ==
    LET RECURSIVE Loop(_)
        Loop(i) ==
            IF i > Len(ss[0])
            THEN sols
            ELSE LET r == findSolutionPath(<<>>, 0, i, ss, conn) IN
                 IF r.ok THEN Append(sols, RecordedPath(r.path))
                 ELSE Loop(i + 1)
    IN Loop(1)

setFollowSamplers(k) ==
    /\ pc = "idle"
    /\ follow_samplers_' = k
    /\ UNCHANGED <<ctxVars, sets, connections, is_start, work_area, fresult,
                   seed_i, adding_goals, solved, allocVars, motionVars>>
    /\ UNCHANGED <<cfgVars, setupVars, propVars>>
    /\ UNCHANGED <<samplerCalled, goalDrawn, expandDraw, goalRetried>>

\* entry of follow(timeout, count), for at most `limit` calls
FollowCallWithin(limit) ==
    /\ pc = "idle"
    /\ calls < limit
    /\ pc' = "preSolve"
    /\ op' = "follow"
    /\ count' = 0
    /\ calls' = calls + 1
    /\ ret' = "none"
    /\ batches' = <<>>
    /\ termCalled' = FALSE
    /\ status' = "none"
    /\ UNCHANGED <<max_planning_threads_, ptc_, planners, solutions,
                   ptcAlive, terminated, expired, result, batch_n, batch_i,
                   found, termNull, danglingDeref>>
    /\ paths_before' = Len(solutions)
    /\ UNCHANGED <<start_states, validity_checker, planner_allocator,
                   setup_called, projection, config_, peval, pe_ret,
                   pe_installed>>
    /\ UNCHANGED propVars
    /\ UNCHANGED <<folVars, cfgVars>>

FollowCall == FollowCallWithin(MaxFollowCalls)

\* og::Follower f(...); the condition is created and registered
FollowRegister ==
    /\ pc = "follow_setup"
    /\ NewCondition
    /\ registerTerminationCondition(calls)
    /\ pc' = "follower_begin"
    /\ UNCHANGED <<callVars, histVars, batchVars, solutions, result, status>>
    /\ UNCHANGED <<folVars, cfgVars, setupVars, propVars>>

\* variant: the start states are cloned before the goal type is tested
FollowerBeginStartsFirst(goalSampleable, nstarts) ==
    /\ pc = "follower_begin"
    /\ sets' = [l \in 0..goal_index |->
                  IF l = 0 THEN [j \in 1..nstarts |-> nextId + j - 1]
                  ELSE <<>>]
    /\ IF ~goalSampleable
       THEN /\ fresult' = "UNRECOGNIZED_GOAL_TYPE"
            /\ pc' = "follower_return"
            /\ nextId' = nextId + nstarts
            /\ live' = live \cup (nextId..(nextId + nstarts - 1))
            /\ UNCHANGED <<work_area, seed_i, badFree>>
       ELSE IF nstarts = 0
       THEN /\ fresult' = "INVALID_START"
            /\ pc' = "follower_return"
            /\ UNCHANGED <<work_area, seed_i, allocVars>>
       ELSE /\ fresult' = "EXACT_SOLUTION"
            /\ work_area' = nextId + nstarts
            /\ nextId' = nextId + nstarts + 1
            /\ live' = live \cup (nextId..(nextId + nstarts))
            /\ seed_i' = 0
            /\ pc' = "seed"
            /\ UNCHANGED badFree
    /\ UNCHANGED <<callVars, ptcVars, histVars, batchVars, solutions, result,
                   status>>
    /\ UNCHANGED <<follow_samplers_, connections, is_start, adding_goals,
                   solved, motionVars>>
    /\ UNCHANGED <<cfgVars, setupVars, propVars>>
    /\ UNCHANGED <<samplerCalled, goalDrawn, expandDraw, goalRetried>>

\* Follower::follow up to the seeding loop: the goal type, the start states
FollowerBegin(goalSampleable, nstarts) ==
    /\ pc = "follower_begin"
    /\ IF ~goalSampleable
       THEN /\ fresult' = "UNRECOGNIZED_GOAL_TYPE"
            /\ pc' = "follower_return"
            /\ UNCHANGED <<sets, work_area, seed_i, allocVars>>
       ELSE /\ sets' = [l \in 0..goal_index |->
                          IF l = 0 THEN [j \in 1..nstarts |-> nextId + j - 1]
                          ELSE <<>>]
            /\ IF nstarts = 0
               THEN /\ fresult' = "INVALID_START"
                    /\ pc' = "follower_return"
                    /\ UNCHANGED <<work_area, seed_i, allocVars>>
               ELSE /\ fresult' = "EXACT_SOLUTION"
                    /\ work_area' = nextId + nstarts
                    /\ nextId' = nextId + nstarts + 1
                    /\ live' = live \cup (nextId..(nextId + nstarts))
                    /\ seed_i' = 0
                    /\ pc' = "seed"
                    /\ UNCHANGED badFree
    /\ UNCHANGED <<callVars, ptcVars, histVars, batchVars, solutions, result,
                   status>>
    /\ UNCHANGED <<follow_samplers_, connections, is_start, adding_goals,
                   solved, motionVars>>
    /\ UNCHANGED <<cfgVars, setupVars, propVars>>
    /\ UNCHANGED <<samplerCalled, goalDrawn, expandDraw, goalRetried>>

\* one pass of the inner seeding loop for layer i + 1
SeedSample(projected, sampled, valid) ==
    /\ pc = "seed"
    /\ seed_i < follow_samplers_ /\ ~ptc
    /\ sets[seed_i + 1] = <<>>
    /\ LET drawn == IF sets[seed_i] = <<>> THEN sampled
                    ELSE projected \/ sampled
       IN IF drawn /\ valid
          THEN /\ sets' = [sets EXCEPT ![seed_i + 1] = Append(@, nextId)]
               /\ nextId' = nextId + 1
               /\ live' = live \cup {nextId}
          ELSE UNCHANGED <<sets, nextId, live>>
    /\ UNCHANGED <<pc, callVars, ptcVars, histVars, batchVars, solutions,
                   result, status>>
    /\ UNCHANGED <<follow_samplers_, connections, is_start, work_area,
                   fresult, seed_i, adding_goals, solved, badFree,
                   motionVars>>
    /\ UNCHANGED <<cfgVars, setupVars, propVars>>
    /\ samplerCalled' = TRUE
    /\ UNCHANGED <<goalDrawn, expandDraw, goalRetried>>

\* variant: ++i whether or not layer i + 1 received a state
SeedAdvanceUnfilled ==
    /\ pc = "seed"
    /\ seed_i < follow_samplers_
    /\ seed_i' = seed_i + 1
    /\ UNCHANGED <<pc, callVars, ptcVars, histVars, batchVars, solutions,
                   result, status>>
    /\ UNCHANGED <<follow_samplers_, sets, connections, is_start, work_area,
                   fresult, adding_goals, solved, allocVars, motionVars>>
    /\ UNCHANGED <<cfgVars, setupVars, propVars>>
    /\ UNCHANGED <<samplerCalled, goalDrawn, expandDraw, goalRetried>>

\* layer i + 1 is non-empty: ++i
SeedAdvance ==
    /\ pc = "seed"
    /\ seed_i < follow_samplers_
    /\ sets[seed_i + 1] # <<>>
    /\ seed_i' = seed_i + 1
    /\ UNCHANGED <<pc, callVars, ptcVars, histVars, batchVars, solutions,
                   result, status>>
    /\ UNCHANGED <<follow_samplers_, sets, connections, is_start, work_area,
                   fresult, adding_goals, solved, allocVars, motionVars>>
    /\ UNCHANGED <<cfgVars, setupVars, propVars>>
    /\ UNCHANGED <<samplerCalled, goalDrawn, expandDraw, goalRetried>>

\* the seeding loop ends: every sampler served, or termination fired
SeedExit ==
    /\ pc = "seed"
    /\ seed_i >= follow_samplers_ \/ ptc
    /\ pc' = "seed_goal"
    /\ UNCHANGED <<callVars, ptcVars, histVars, batchVars, solutions, result,
                   status>>
    /\ UNCHANGED <<folVars, cfgVars, setupVars, propVars>>

\* if (ptc()) TIMEOUT, else add one goal state or INVALID_GOAL
SeedGoal(got) ==
    /\ pc = "seed_goal"
    /\ IF ptc
       THEN /\ fresult' = "TIMEOUT"
            /\ pc' = "cleanup"
            /\ UNCHANGED <<sets, nextId, live>>
       ELSE IF got
       THEN /\ sets' = [sets EXCEPT ![goal_index] = Append(@, nextId)]
            /\ nextId' = nextId + 1
            /\ live' = live \cup {nextId}
            /\ pc' = "first_sample"
            /\ UNCHANGED fresult
       ELSE /\ fresult' = "INVALID_GOAL"
            /\ pc' = "cleanup"
            /\ UNCHANGED <<sets, nextId, live>>
    /\ UNCHANGED <<callVars, ptcVars, histVars, batchVars, solutions, result,
                   status>>
    /\ UNCHANGED <<follow_samplers_, connections, is_start, work_area,
                   seed_i, adding_goals, solved, badFree, motionVars>>
    /\ UNCHANGED <<cfgVars, setupVars, propVars>>
    /\ goalDrawn' = (goalDrawn \/ ~ptc)
    /\ UNCHANGED <<samplerCalled, expandDraw, goalRetried>>

\* the pair of first states of layers l and l + 1
FirstPair(l) == <<sets[l][1], sets[l + 1][1]>>

\* variant: the heuristic counts as worked when any one pair connects
FirstSampleAnyPair ==
    /\ pc = "first_sample"
    /\ LET P == {FirstPair(l) : l \in 0..follow_samplers_} IN
       \E m \in Oracle(P) :
          LET conn0 == [l \in 0..follow_samplers_ |->
                          [j \in 1..Len(sets[l]) |->
                              IF j = 1 /\ m[FirstPair(l)] THEN <<1>>
                              ELSE <<>>]]
              first_sample_worked ==
                  \E l \in 0..follow_samplers_ : m[FirstPair(l)]
          IN /\ connections' = conn0
             /\ Asked(m, P)
             /\ IF first_sample_worked
                THEN /\ solutions' = computeSolution(sets, conn0, solutions)
                     /\ pc' = "cleanup"
                ELSE /\ pc' = "expand_init"
                     /\ UNCHANGED solutions
    /\ UNCHANGED <<callVars, ptcVars, histVars, batchVars, result, status>>
    /\ UNCHANGED <<follow_samplers_, sets, is_start, work_area, fresult,
                   seed_i, adding_goals, solved, allocVars>>
    /\ UNCHANGED <<cfgVars, setupVars, propVars>>
    /\ UNCHANGED <<samplerCalled, goalDrawn, expandDraw, goalRetried>>

\* check connections between first states (heuristic)
FirstSample ==
    /\ pc = "first_sample"
    /\ LET P == {FirstPair(l) : l \in 0..follow_samplers_} IN
       \E m \in Oracle(P) :
          LET conn0 == [l \in 0..follow_samplers_ |->
                          [j \in 1..Len(sets[l]) |->
                              IF j = 1 /\ m[FirstPair(l)] THEN <<1>>
                              ELSE <<>>]]
              first_sample_worked ==
                  \A l \in 0..follow_samplers_ : m[FirstPair(l)]
          IN /\ connections' = conn0
             /\ Asked(m, P)
             /\ IF first_sample_worked
                THEN /\ solutions' = computeSolution(sets, conn0, solutions)
                     /\ pc' = "cleanup"
                ELSE /\ pc' = "expand_init"
                     /\ UNCHANGED solutions
    /\ UNCHANGED <<callVars, ptcVars, histVars, batchVars, result, status>>
    /\ UNCHANGED <<follow_samplers_, sets, is_start, work_area, fresult,
                   seed_i, adding_goals, solved, allocVars>>
    /\ UNCHANGED <<cfgVars, setupVars, propVars>>
    /\ UNCHANGED <<samplerCalled, goalDrawn, expandDraw, goalRetried>>

\* the loop "for i: propagateStartInfo(0, i, is_start, connections)"
RECURSIVE PropagateStarts(_, _, _, _)
PropagateStarts(i, nstarts, iss, conn) ==
    IF i > nstarts
    THEN iss
    ELSE PropagateStarts(i + 1, nstarts,
                         propagateStartInfo(0, i, iss, conn), conn)

\* further connections from start states, is_start and its propagation
ExpandInit ==
    /\ pc = "expand_init"
    /\ LET P == {<<sets[0][i], sets[1][1]>> : i \in 2..Len(sets[0])} IN
       \E m \in Oracle(P) :
          LET conn1 == [connections EXCEPT ![0] =
                          [j \in 1..Len(sets[0]) |->
                              IF j >= 2 /\ m[<<sets[0][j], sets[1][1]>>]
                              THEN Append(@[j], 1) ELSE @[j]]]
              iss0 == [l \in 0..goal_index |->
                          [j \in 1..Len(sets[l]) |-> IF l = 0 THEN 1 ELSE 0]]
          IN /\ connections' = conn1
             /\ Asked(m, P)
             /\ is_start' = PropagateStarts(1, Len(sets[0]), iss0, conn1)
    /\ solved' = FALSE
    /\ adding_goals' = TRUE
    /\ pc' = "expand"
    /\ UNCHANGED <<callVars, ptcVars, histVars, batchVars, solutions, result,
                   status>>
    /\ UNCHANGED <<follow_samplers_, sets, work_area, fresult, seed_i,
                   allocVars>>
    /\ UNCHANGED <<cfgVars, setupVars, propVars>>
    /\ UNCHANGED <<samplerCalled, goalDrawn, expandDraw, goalRetried>>

\* variant: the edge from every prev[i] is recorded whatever checkMotion
\* answered
RECURSIVE PrevLoopUnchecked(_, _, _, _, _, _, _)
PrevLoopUnchecked(i, index, added_elem_index, prev, back, m, st) ==
    IF i > Len(prev)
    THEN st
    ELSE PrevLoopUnchecked(i + 1, index, added_elem_index, prev, back, m,
             [conn |-> [st.conn EXCEPT ![index - 1][i] =
                           Append(@, added_elem_index)],
              iss |-> st.iss])

\* the loop over prev = sets[index-1] after an append; st = [conn, iss]
RECURSIVE PrevLoop(_, _, _, _, _, _, _)
PrevLoop(i, index, added_elem_index, prev, back, m, st) ==
    IF i > Len(prev)
    THEN st
    ELSE IF m[<<prev[i], back>>]
    THEN LET conn2 == [st.conn EXCEPT ![index - 1][i] =
                           Append(@, added_elem_index)]
             iss2 == IF st.iss[index - 1][i] = 1
                     THEN propagateStartInfo(index, added_elem_index,
                              [st.iss EXCEPT ![index][added_elem_index] = 1],
                              conn2)
                     ELSE st.iss
         IN PrevLoop(i + 1, index, added_elem_index, prev, back, m,
                     [conn |-> conn2, iss |-> iss2])
    ELSE PrevLoop(i + 1, index, added_elem_index, prev, back, m, st)

\* the loop over next = sets[index+1] (only if index < goal_index)
RECURSIVE NextLoop(_, _, _, _, _, _, _)
NextLoop(i, index, added_elem_index, back, next, m, st) ==
    IF i > Len(next)
    THEN st
    ELSE IF m[<<back, next[i]>>]
    THEN LET conn2 == [st.conn EXCEPT ![index][added_elem_index] =
                           Append(@, i)]
             iss2 == IF st.iss[index][added_elem_index] = 1
                        /\ st.iss[index + 1][i] = 0
                     THEN propagateStartInfo(index + 1, i,
                              [st.iss EXCEPT ![index + 1][i] = 1], conn2)
                     ELSE st.iss
         IN NextLoop(i + 1, index, added_elem_index, back, next, m,
                     [conn |-> conn2, iss |-> iss2])
    ELSE NextLoop(i + 1, index, added_elem_index, back, next, m, st)

\* which layer an iteration appends to: the goal layer when the PDF names
\* it or the goal-bias coin fires, else the layer the PDF named
AppendLayer(index, coin) ==
    IF index = goal_index \/ (adding_goals /\ coin) THEN goal_index ELSE index

\* one iteration of the expansion loop; index is the PDF's draw, coin the
\* goal-bias draw, avail whether a valid goal state / sample was obtained
ExpandStep(index, coin, avail) ==
    /\ pc = "expand"
    /\ ~ptc /\ ~solved
    /\ LET layer == AppendLayer(index, coin)
           added == avail /\ Added(sets) < MaxAdded
           sets1 == [sets EXCEPT ![layer] = Append(@, nextId)]
           conn1 == IF layer = goal_index THEN connections
                    ELSE [connections EXCEPT ![index] = Append(@, <<>>)]
           iss1 == [is_start EXCEPT ![layer] = Append(@, 0)]
           prev == sets1[index - 1]
           added_elem_index == Len(sets1[index])
           back == sets1[index][added_elem_index]
           next == IF index < goal_index THEN sets1[index + 1] ELSE <<>>
           P == {<<prev[i], back>> : i \in 1..Len(prev)}
                \cup {<<back, next[i]>> : i \in 1..Len(next)}
       IN IF added
          THEN \E m \in Oracle(P) :
                  LET st1 == PrevLoop(1, index, added_elem_index, prev, back,
                                      m, [conn |-> conn1, iss |-> iss1])
                      st2 == NextLoop(1, index, added_elem_index, back, next,
                                      m, st1)
                  IN /\ sets' = sets1
                     /\ nextId' = nextId + 1
                     /\ live' = live \cup {nextId}
                     /\ connections' = st2.conn
                     /\ is_start' = st2.iss
                     /\ Asked(m, P)
                     /\ solved' = \E i \in 1..Len(st2.iss[goal_index]) :
                                      st2.iss[goal_index][i] = 1
                     /\ UNCHANGED adding_goals
          ELSE /\ adding_goals' = (adding_goals /\ layer # goal_index)
               /\ UNCHANGED <<sets, nextId, live, connections, is_start,
                              motionVars, solved>>
    /\ UNCHANGED <<pc, callVars, ptcVars, histVars, batchVars, solutions,
                   result, status>>
    /\ goalDrawn' = (goalDrawn \/ AppendLayer(index, coin) = goal_index)
    /\ samplerCalled' = (samplerCalled \/ AppendLayer(index, coin) # goal_index)
    /\ expandDraw' = TRUE
    /\ goalRetried' = (goalRetried
                        \/ (AppendLayer(index, coin) = goal_index
                            /\ ~adding_goals))
    /\ UNCHANGED <<follow_samplers_, work_area, fresult, seed_i, badFree>>
    /\ UNCHANGED <<cfgVars, setupVars, propVars>>

\* variant: the expansion loop tests only solved, not the termination
\* condition
ExpandExitWhenSolved ==
    /\ pc = "expand"
    /\ solved
    /\ solutions' = computeSolution(sets, connections, solutions)
    /\ pc' = "cleanup"
    /\ UNCHANGED <<callVars, ptcVars, histVars, batchVars, result, status>>
    /\ UNCHANGED <<follow_samplers_, sets, connections, is_start, work_area,
                   fresult, seed_i, adding_goals, solved, allocVars,
                   motionVars>>
    /\ UNCHANGED <<cfgVars, setupVars, propVars>>
    /\ UNCHANGED <<samplerCalled, goalDrawn, expandDraw, goalRetried>>

\* the expansion loop ends: computeSolution if solved, else TIMEOUT
ExpandExit ==
    /\ pc = "expand"
    /\ ptc \/ solved
    /\ IF solved
       THEN /\ solutions' = computeSolution(sets, connections, solutions)
            /\ UNCHANGED fresult
       ELSE /\ fresult' = "TIMEOUT"
            /\ UNCHANGED solutions
    /\ pc' = "cleanup"
    /\ UNCHANGED <<callVars, ptcVars, histVars, batchVars, result, status>>
    /\ UNCHANGED <<follow_samplers_, sets, connections, is_start, work_area,
                   seed_i, adding_goals, solved, allocVars, motionVars>>
    /\ UNCHANGED <<cfgVars, setupVars, propVars>>
    /\ UNCHANGED <<samplerCalled, goalDrawn, expandDraw, goalRetried>>

\* every state the cleanup frees, in the order it frees them
RECURSIVE Flatten(_, _)
Flatten(ss, l) ==
    IF l > goal_index THEN <<>> ELSE ss[l] \o Flatten(ss, l + 1)

\* variant: the work area is not freed
FreedStatesLayersOnly == Flatten(sets, 0)

FreedStates == Flatten(sets, 0) \o <<work_area>>

\* si_->freeStates(sets[i]) for every layer, si_->freeState(work_area)
Cleanup ==
    /\ pc = "cleanup"
    /\ LET f == FreedStates IN
       /\ live' = live \ {f[k] : k \in 1..Len(f)}
       /\ badFree' = (badFree
                      \/ (\E k \in 1..Len(f) : f[k] \notin live)
                      \/ (\E j, k \in 1..Len(f) : j # k /\ f[j] = f[k]))
    /\ pc' = "follower_return"
    /\ UNCHANGED <<callVars, ptcVars, histVars, batchVars, solutions, result,
                   status>>
    /\ UNCHANGED <<follow_samplers_, sets, connections, is_start, work_area,
                   fresult, seed_i, adding_goals, solved, nextId, motionVars>>
    /\ UNCHANGED <<cfgVars, setupVars, propVars>>
    /\ UNCHANGED <<samplerCalled, goalDrawn, expandDraw, goalRetried>>

\* result = f.follow(...) == EXACT_SOLUTION; the Follower's frame is gone
FollowReturn ==
    /\ pc = "follower_return"
    /\ status' = fresult
    /\ result' = RunSucceeded(fresult)
    /\ pc' = "unregister"
    /\ sets' = <<>> /\ connections' = <<>> /\ is_start' = <<>>
    /\ work_area' = NULL /\ fresult' = "none" /\ seed_i' = 0
    /\ adding_goals' = FALSE /\ solved' = FALSE
    /\ nextId' = 1
    /\ motionTrue' = {} /\ motionFalse' = {}
    /\ UNCHANGED <<callVars, ptcVars, histVars, batchVars, solutions>>
    /\ UNCHANGED <<follow_samplers_, live, badFree>>
    /\ UNCHANGED <<cfgVars, setupVars, propVars>>
    /\ samplerCalled' = FALSE /\ goalDrawn' = FALSE /\ expandDraw' = FALSE
    /\ goalRetried' = FALSE

NextFollow ==
    \/ \E k \in 0..MaxSamplers : setFollowSamplers(k)
    \/ FollowCall
    \/ preSolve
    \/ FollowRegister
    \/ \E g \in BOOLEAN, k \in 0..MaxStarts : FollowerBegin(g, k)
    \/ \E p, s, v \in BOOLEAN : SeedSample(p, s, v)
    \/ SeedAdvance
    \/ SeedExit
    \/ \E got \in BOOLEAN : SeedGoal(got)
    \/ FirstSample
    \/ ExpandInit
    \/ \E index \in 1..goal_index, coin, avail \in BOOLEAN :
          ExpandStep(index, coin, avail)
    \/ ExpandExit
    \/ Cleanup
    \/ FollowReturn
    \/ Unregister
    \/ postSolve
    \/ Expire

SpecFollow == Init /\ [][NextFollow]_vars

\* The thread inside Follower::follow takes its next step when it has one
\* (every sampler, validity, motion-check and goal-draw call returns), and
\* the deadline of the timed termination condition passes.
FollowFairness ==
    /\ WF_vars(Expire)
    /\ WF_vars(\E g \in BOOLEAN, k \in 0..MaxStarts : FollowerBegin(g, k))
    /\ WF_vars(SeedAdvance)
    /\ WF_vars(SeedExit)
    /\ WF_vars(\E got \in BOOLEAN : SeedGoal(got))
    /\ WF_vars(FirstSample)
    /\ WF_vars(ExpandInit)
    /\ WF_vars(ExpandExit)
    /\ WF_vars(Cleanup)

SpecFollowLive == SpecFollow /\ FollowFairness

\* Several follow() calls in a row on a problem with at most one valid
\* start state.
MaxFollowSeq == 2
MaxSeqStarts == 1

NextFollowSeq ==
    \/ \E k \in 0..MaxSamplers : setFollowSamplers(k)
    \/ FollowCallWithin(MaxFollowSeq)
    \/ preSolve
    \/ FollowRegister
    \/ \E g \in BOOLEAN, k \in 0..MaxSeqStarts : FollowerBegin(g, k)
    \/ \E p, s, v \in BOOLEAN : SeedSample(p, s, v)
    \/ SeedAdvance
    \/ SeedExit
    \/ \E got \in BOOLEAN : SeedGoal(got)
    \/ FirstSample
    \/ ExpandInit
    \/ \E index \in 1..goal_index, coin, avail \in BOOLEAN :
          ExpandStep(index, coin, avail)
    \/ ExpandExit
    \/ Cleanup
    \/ FollowReturn
    \/ Unregister
    \/ postSolve
    \/ Expire

SpecFollowSeq == Init /\ [][NextFollowSeq]_vars

\* One follow() call through DeepSamplers sampler layers, on a problem with
\* one valid start state and a sampleable goal.
DeepSamplers == 2

NextFollowDeep ==
    \/ setFollowSamplers(DeepSamplers)
    \/ FollowCall
    \/ preSolve
    \/ FollowRegister
    \/ FollowerBegin(TRUE, 1)
    \/ \E p, s, v \in BOOLEAN : SeedSample(p, s, v)
    \/ SeedAdvance
    \/ SeedExit
    \/ \E got \in BOOLEAN : SeedGoal(got)
    \/ FirstSample
    \/ ExpandInit
    \/ \E index \in 1..goal_index, coin, avail \in BOOLEAN :
          ExpandStep(index, coin, avail)
    \/ ExpandExit
    \/ Cleanup
    \/ FollowReturn
    \/ Unregister
    \/ postSolve
    \/ Expire

SpecFollowDeep == Init /\ [][NextFollowDeep]_vars

\* ---------------------------------------------------------------------
\* Follower::propagateStartInfo called on its own
\* ---------------------------------------------------------------------
\* The arguments are drawn from every connection graph and every is_start
\* over n + 2 layers of PropLayer states each, n in 0..PropSamplers.

\* largest number n of sampler layers of the graphs
PropSamplers == 1
\* number of states in each layer of the graphs
PropLayer == 2

\* the members of a set of numbers as a vector, in ascending order
RECURSIVE SeqOf(_)
SeqOf(S) ==
    IF S = {}
    THEN <<>>
    ELSE LET x == CHOOSE y \in S : \A z \in S : y <= z
         IN <<x>> \o SeqOf(S \ {x})

\* the values connections can have for n sampler layers
PropGraphs(n) ==
    [0..n -> [1..PropLayer -> {SeqOf(S) : S \in SUBSET (1..PropLayer)}]]

\* the values is_start can have for n sampler layers
PropMarks(n) == [0..(n + 1) -> [1..PropLayer -> {0, 1}]]

\* how deep the calls of propagateStartInfo(set_index, elem_index, ...)
\* nest, the outermost call counted
RECURSIVE PropagateDepth(_, _, _)
PropagateDepth(set_index, elem_index, conn) ==
    IF ConnSize(conn) <= set_index
    THEN 1
    ELSE LET c == conn[set_index][elem_index]
             RECURSIVE Deepest(_)
             Deepest(i) ==
                 IF i > Len(c)
                 THEN 0
                 ELSE LET d == PropagateDepth(set_index + 1, c[i], conn)
                          r == Deepest(i + 1)
                      IN IF d > r THEN d ELSE r
         IN 1 + Deepest(1)

\* a call propagateStartInfo(set_index, elem_index, is_start, connections)
PropagateCall(set_index, elem_index) ==
    /\ pc = "propagate"
    /\ prop_at' = <<set_index, elem_index>>
    /\ prop_before' = is_start
    /\ is_start' = propagateStartInfo(set_index, elem_index, is_start,
                                      connections)
    /\ prop_depth' = PropagateDepth(set_index, elem_index, connections)
    /\ pc' = "propagated"
    /\ UNCHANGED <<callVars, ptcVars, histVars, batchVars, solutions, result,
                   status>>
    /\ UNCHANGED <<follow_samplers_, sets, connections, work_area, fresult,
                   seed_i, adding_goals, solved, allocVars, motionVars>>
    /\ UNCHANGED <<samplerCalled, goalDrawn, expandDraw, goalRetried>>
    /\ UNCHANGED <<cfgVars, setupVars>>

\* the call returned; the caller goes on with the is_start it left
PropagateReturn ==
    /\ pc = "propagated"
    /\ pc' = "propagate"
    /\ prop_at' = <<>> /\ prop_before' = <<>> /\ prop_depth' = 0
    /\ UNCHANGED <<callVars, ptcVars, histVars, batchVars, solutions, result,
                   status>>
    /\ UNCHANGED <<folVars, cfgVars, setupVars>>

InitPropagate ==
    /\ pc = "propagate" /\ op = "none" /\ count = 0 /\ calls = 0
    /\ ret = "none"
    /\ max_planning_threads_ = 0
    /\ ptc_ = NULL
    /\ planners = 0
    /\ solutions = <<>>
    /\ ptcAlive = NULL /\ terminated = FALSE /\ expired = FALSE
    /\ result = FALSE /\ batch_n = 0 /\ batch_i = 0
    /\ found = FALSE /\ status = "none"
    /\ batches = <<>>
    /\ termCalled = FALSE /\ termNull = FALSE /\ danglingDeref = FALSE
    /\ follow_samplers_ \in 0..PropSamplers
    /\ connections \in PropGraphs(follow_samplers_)
    /\ is_start \in PropMarks(follow_samplers_)
    /\ sets = <<>>
    /\ work_area = NULL /\ fresult = "none" /\ seed_i = 0
    /\ adding_goals = FALSE /\ solved = FALSE
    /\ nextId = 1 /\ live = {} /\ badFree = FALSE
    /\ motionTrue = {} /\ motionFalse = {}
    /\ samplerCalled = FALSE /\ goalDrawn = FALSE /\ expandDraw = FALSE
    /\ goalRetried = FALSE
    /\ InitConstraints /\ InitSetup
    /\ config_ = EmptyConfig
    /\ constraint_sampler_manager_ = TRUE
    /\ constraints_library_ = FALSE

NextPropagate ==
    \/ \E set_index \in 0..goal_index, elem_index \in 1..PropLayer :
          PropagateCall(set_index, elem_index)
    \/ PropagateReturn

SpecPropagate == InitPropagate /\ [][NextPropagate]_vars

\* ---------------------------------------------------------------------
\* Path constraints, goal constraints and the sampler factory
\* ---------------------------------------------------------------------

\* A constraints message is told by the kinds of constraints it lists: it
\* is empty when it lists none.  A goal request holds at most MaxGoals
\* messages.
MaxGoals == 2

ConstraintKinds == {"joint_constraints"}

Constraints == SUBSET ConstraintKinds

GoalLists == UNION {[1..n -> Constraints] : n \in 0..MaxGoals}

\* what the approximation library can give for the path constraints
LibraryAnswers == {"no_approximation", "null_allocator", "null_sampler", "sampler"}

\* kinematic_constraints::mergeConstraints lists the constraints of both
mergeConstraints(a, b) == a \cup b

\* the constraint set made from goal_constraints[i]; `from` is the position
\* of the message it was made from, which tells the sets of one call apart
KinematicConstraintSet(i, constr) == [from |-> i, atoms |-> constr]

\* the loop of setGoalConstraints from position i on: keeps the sets that
\* are not empty
RECURSIVE MergedGoalSets(_, _, _)
MergedGoalSets(goal_constraints, path_constraints, i) ==
    IF i > Len(goal_constraints) THEN <<>>
    ELSE LET constr == mergeConstraints(goal_constraints[i], path_constraints)
             kset == KinematicConstraintSet(i, constr)
             rest == MergedGoalSets(goal_constraints, path_constraints, i + 1)
         IN  IF kset.atoms # {} THEN <<kset>> \o rest ELSE rest

\* the loop of constructGoal from position i on: one ConstrainedGoalSampler
\* for each set the manager selects a sampler for
RECURSIVE GoalSamplers(_, _, _, _)
GoalSamplers(gc, manager, sel, i) ==
    IF i > Len(gc) THEN <<>>
    ELSE LET cs == manager /\ sel[gc[i].from]
             rest == GoalSamplers(gc, manager, sel, i + 1)
         IN  IF cs THEN <<gc[i]>> \o rest ELSE rest

\* a variant of the goal choice that keeps only the first sampler
GoalOfFirstOnly(goals) ==
    IF goals # <<>>
    THEN [type |-> "ConstrainedGoalSampler", members |-> <<goals[1]>>]
    ELSE NoGoal

\* the goal for the samplers made: the single one, or the union of them
GoalOf(goals) ==
    IF goals # <<>>
    THEN IF Len(goals) = 1
         THEN [type |-> "ConstrainedGoalSampler", members |-> goals]
         ELSE [type |-> "GoalSampleableRegionMux", members |-> goals]
    ELSE NoGoal

constructGoal(gc, manager, sel) == GoalOf(GoalSamplers(gc, manager, sel, 1))

\* the results of the previous configuration call are gone
ForgetGoalCall ==
    /\ sgc_ret' = "none" /\ error' = "unset" /\ errorGiven' = FALSE
    /\ in_goals' = <<>> /\ in_path' = {} /\ in_sel' = <<>>

ForgetAllocCall ==
    /\ alloc_ret' = "none" /\ alloc_own' = FALSE
    /\ libAnswer' = "not_asked" /\ mgrAnswer' = "not_asked" /\ mgrQuery' = {}

setPathConstraints(msg) ==
    /\ pc = "idle"
    /\ path_constraints_' = <<msg>>
    /\ path_constraints_msg_' = msg
    /\ cfg_op' = "setPathConstraints"
    /\ ForgetGoalCall /\ ForgetAllocCall
    /\ UNCHANGED <<constraint_sampler_manager_, constraints_library_,
                   goal_constraints_, goal>>
    /\ UNCHANGED <<ctxVars, folVars, setupVars, propVars>>

\* sel[i] is what selectSampler gives for the set made from message i; it
\* is FALSE where the manager is not asked
setGoalConstraints(goal_constraints, path_constraints, withError, sel) ==
    /\ pc = "idle"
    /\ LET gc == MergedGoalSets(goal_constraints, path_constraints, 1)
           g == constructGoal(gc, constraint_sampler_manager_, sel)
       IN  /\ goal_constraints_' = gc
           /\ IF gc = <<>>
              THEN /\ error' = IF withError THEN "INVALID_GOAL_CONSTRAINTS"
                               ELSE "unset"
                   /\ sgc_ret' = "false"
                   /\ UNCHANGED goal
              ELSE /\ goal' = g
                   /\ sgc_ret' = IF g # NoGoal THEN "true" ELSE "false"
                   /\ error' = "unset"
    /\ cfg_op' = "setGoalConstraints"
    /\ errorGiven' = withError
    /\ in_goals' = goal_constraints
    /\ in_path' = path_constraints
    /\ in_sel' = sel
    /\ ForgetAllocCall
    /\ UNCHANGED <<constraint_sampler_manager_, constraints_library_,
                   path_constraints_, path_constraints_msg_>>
    /\ UNCHANGED <<ctxVars, folVars, setupVars, propVars>>

\* variant: clear() keeps the path constraints
clearKeepsPathConstraints ==
    /\ pc = "idle"
    /\ solutions' = <<>>
    /\ goal' = NoGoal
    /\ goal_constraints_' = <<>>
    /\ cfg_op' = "clear"
    /\ ForgetGoalCall /\ ForgetAllocCall
    /\ start_states' = 0
    /\ validity_checker' = FALSE
    /\ UNCHANGED <<constraint_sampler_manager_, constraints_library_,
                   path_constraints_msg_, path_constraints_>>
    /\ UNCHANGED <<pc, op, count, calls, ret, max_planning_threads_, ptc_,
                   planners, ptcAlive, terminated, expired, result, batch_n,
                   batch_i, found, status, batches, termCalled, termNull,
                   danglingDeref>>
    /\ UNCHANGED <<planner_allocator, setup_called, projection, config_,
                   peval, pe_ret, pe_installed, paths_before>>
    /\ UNCHANGED propVars
    /\ UNCHANGED folVars

\* ModelBasedPlanningContext::clear
clear ==
    /\ pc = "idle"
    /\ solutions' = <<>>
    /\ goal' = NoGoal
    /\ path_constraints_' = <<>>
    /\ goal_constraints_' = <<>>
    /\ cfg_op' = "clear"
    /\ ForgetGoalCall /\ ForgetAllocCall
    /\ UNCHANGED <<constraint_sampler_manager_, constraints_library_,
                   path_constraints_msg_>>
    /\ UNCHANGED <<pc, op, count, calls, ret, max_planning_threads_, ptc_,
                   planners, ptcAlive, terminated, expired, result, batch_n,
                   batch_i, found, status, batches, termCalled, termNull,
                   danglingDeref>>
    /\ start_states' = 0
    /\ validity_checker' = FALSE
    /\ UNCHANGED <<planner_allocator, setup_called, projection, config_,
                   peval, pe_ret, pe_installed, paths_before>>
    /\ UNCHANGED propVars
    /\ UNCHANGED folVars

\* a variant of the sampler choice that asks the manager before the library
allocManagerFirst(own, pcs, msg, library, manager, lib, mgr) ==
    IF ~own
    THEN [ret |-> "null", lib |-> "not_asked", mgr |-> "not_asked", query |-> {}]
    ELSE IF pcs # <<>> /\ manager /\ mgr
    THEN [ret |-> "constrained", lib |-> "not_asked", mgr |-> "sampler",
          query |-> pcs[1]]
    ELSE IF pcs # <<>> /\ library /\ lib = "sampler"
    THEN [ret |-> "approximation", lib |-> lib,
          mgr |-> IF manager THEN "none" ELSE "not_asked",
          query |-> IF manager THEN pcs[1] ELSE {}]
    ELSE [ret |-> "default",
          lib |-> IF pcs # <<>> /\ library THEN lib ELSE "not_asked",
          mgr |-> IF pcs # <<>> /\ manager THEN "none" ELSE "not_asked",
          query |-> IF pcs # <<>> /\ manager THEN pcs[1] ELSE {}]

\* The sampler for a state space: `own` says it is the context's space,
\* pcs and msg are path_constraints_ and path_constraints_msg_, lib is what
\* the library gives for msg and mgr whether selectSampler gives a sampler.
allocSampler(own, pcs, msg, library, manager, lib, mgr) ==
    IF ~own
    THEN [ret |-> "null", lib |-> "not_asked", mgr |-> "not_asked", query |-> {}]
    ELSE IF pcs # <<>>
    THEN LET asked == IF library THEN lib ELSE "not_asked"
         IN  IF asked = "sampler"
             THEN [ret |-> "approximation", lib |-> asked,
                   mgr |-> "not_asked", query |-> {}]
             ELSE LET cs == manager /\ mgr
                  IN  [ret |-> IF cs THEN "constrained" ELSE "default",
                       lib |-> asked,
                       mgr |-> IF ~manager THEN "not_asked"
                               ELSE IF mgr THEN "sampler" ELSE "none",
                       query |-> IF manager THEN pcs[1] ELSE {}]
    ELSE [ret |-> "default", lib |-> "not_asked", mgr |-> "not_asked",
          query |-> {}]

allocPathConstrainedSampler(own, lib, mgr) ==
    /\ pc = "idle"
    /\ LET r == allocSampler(own, path_constraints_, path_constraints_msg_,
                             constraints_library_, constraint_sampler_manager_,
                             lib, mgr)
       IN  /\ alloc_ret' = r.ret
           /\ libAnswer' = r.lib
           /\ mgrAnswer' = r.mgr
           /\ mgrQuery' = r.query
    /\ alloc_own' = own
    /\ cfg_op' = "allocPathConstrainedSampler"
    /\ ForgetGoalCall
    /\ UNCHANGED <<constraint_sampler_manager_, constraints_library_,
                   path_constraints_, path_constraints_msg_,
                   goal_constraints_, goal>>
    /\ UNCHANGED <<ctxVars, folVars, setupVars, propVars>>

\* a context built over any specification with an empty configuration
InitConfig ==
    /\ InitCtx /\ InitFollower /\ InitConstraints /\ InitSetup
    /\ config_ = EmptyConfig
    /\ constraint_sampler_manager_ \in BOOLEAN
    /\ constraints_library_ \in BOOLEAN

NextConfig ==
    \/ \E msg \in Constraints : setPathConstraints(msg)
    \/ \E goal_constraints \in GoalLists, path_constraints \in Constraints,
          withError \in BOOLEAN :
          \E sel \in [1..Len(goal_constraints) -> BOOLEAN] :
             /\ \A i \in 1..Len(goal_constraints) :
                   sel[i] => /\ constraint_sampler_manager_
                             /\ mergeConstraints(goal_constraints[i],
                                                 path_constraints) # {}
             /\ setGoalConstraints(goal_constraints, path_constraints,
                                   withError, sel)
    \/ clear
    \/ \E own \in BOOLEAN, lib \in LibraryAnswers, mgr \in BOOLEAN :
          allocPathConstrainedSampler(own, lib, mgr)

SpecConfig == InitConfig /\ [][NextConfig]_vars

\* ---------------------------------------------------------------------
\* Projection evaluators
\* ---------------------------------------------------------------------
\* A string is the sequence of its characters; positions are counted from 0
\* as std::string counts them.

\* std::string::npos
npos == -1

\* std::string::find_first_of: the first position of s that holds one of
\* the characters of chars
find_first_of(s, chars) ==
    LET hits == {i \in 1..Len(s) : \E c \in 1..Len(chars) : s[i] = chars[c]}
    IN  IF hits = {} THEN npos
        ELSE (CHOOSE i \in hits : \A h \in hits : i <= h) - 1

\* size_t arithmetic: length - k wraps around below zero, and a count that
\* large takes the rest of the string
SizeMinus(length, k) == IF length >= k THEN length - k ELSE length + 1

\* std::string::substr(pos, n); pos beyond the end throws std::out_of_range
SubstrThrows(s, pos) == pos > Len(s)

substr(s, pos, n) ==
    LET last == IF pos + n < Len(s) THEN pos + n ELSE Len(s)
    IN  SubSeq(s, pos + 1, last)

\* boost::replace_all(s, ",", " ")
replace_all(s) == [i \in 1..Len(s) |-> IF s[i] = "," THEN " " ELSE s[i]]

\* boost::trim_copy
RECURSIVE trim_copy(_)
trim_copy(s) ==
    IF s = <<>> THEN s
    ELSE IF Head(s) = " " THEN trim_copy(Tail(s))
    ELSE IF s[Len(s)] = " " THEN trim_copy(SubSeq(s, 1, Len(s) - 1))
    ELSE s

\* the words the loop "ss >> v >> std::ws" reads from s, from position i on,
\* cur being the word read so far; a string without a word gives one empty
\* word, as the first read fails and leaves v empty
RECURSIVE Words(_, _, _)
Words(s, i, cur) ==
    IF i > Len(s) THEN (IF cur = <<>> THEN <<>> ELSE <<cur>>)
    ELSE IF s[i] = " "
    THEN (IF cur = <<>> THEN <<>> ELSE <<cur>>) \o Words(s, i + 1, <<>>)
    ELSE Words(s, i + 1, Append(cur, s[i]))

ReadWords(s) == IF Words(s, 1, <<>>) = <<>> THEN << <<>> >> ELSE Words(s, 1, <<>>)

\* the robot model: its links, and the joints of the group with the number
\* of variables of each
LinkModels == { <<"e">> }
JointModels == { <<"q">>, <<"f">> }
VariableCount(j) == IF j = <<"q">> THEN 1 ELSE 0

hasLinkModel(name) == name \in LinkModels
hasJointModel(name) == name \in JointModels

\* the joints the loop keeps: known to the group and with variables
RECURSIVE KeptJoints(_, _)
KeptJoints(words, i) ==
    IF i > Len(words) THEN <<>>
    ELSE IF hasJointModel(words[i]) /\ VariableCount(words[i]) > 0
    THEN <<words[i]>> \o KeptJoints(words, i + 1)
    ELSE KeptJoints(words, i + 1)

LinkPrefix == <<"l", "i", "n", "k", "(">>
JointsPrefix == <<"j", "o", "i", "n", "t", "s", "(">>

\* peval.find_first_of(prefix) == 0
StartsWith(s, prefix) == find_first_of(s, prefix) = 0

\* peval[peval.length() - 1] == ')'
EndsWithParen(s) == s[Len(s)] = ")"

\* ModelBasedPlanningContext::getProjectionEvaluator
getProjectionEvaluator(s) ==
    IF StartsWith(s, LinkPrefix) /\ EndsWithParen(s)
    THEN IF SubstrThrows(s, 5)
         THEN [kind |-> "out_of_range", arg |-> <<>>]
         ELSE LET link_name == substr(s, 5, SizeMinus(Len(s), 6))
              IN  IF hasLinkModel(link_name)
                  THEN [kind |-> "ProjectionEvaluatorLinkPose",
                        arg |-> <<link_name>>]
                  ELSE NoProjection
    ELSE IF StartsWith(s, JointsPrefix) /\ EndsWithParen(s)
    THEN IF SubstrThrows(s, 7)
         THEN [kind |-> "out_of_range", arg |-> <<>>]
         ELSE LET joints == replace_all(substr(s, 7, SizeMinus(Len(s), 8)))
                  j == KeptJoints(ReadWords(joints), 1)
              IN  IF j = <<>> THEN NoProjection
                  ELSE [kind |-> "ProjectionEvaluatorJointValue", arg |-> j]
    ELSE NoProjection

\* ModelBasedPlanningContext::setProjectionEvaluator (the state space of a
\* constructed context is never null): the fields it leaves
ProjectionAfter(s) ==
    LET pe == getProjectionEvaluator(s)
    IN  IF pe.kind \in {"none", "out_of_range"} THEN projection ELSE pe

setProjectionEvaluator(s) ==
    /\ pc = "idle"
    /\ peval' = s
    /\ pe_ret' = getProjectionEvaluator(s)
    /\ pe_installed' = (getProjectionEvaluator(s).kind
                           \notin {"none", "out_of_range"})
    /\ projection' = ProjectionAfter(s)
    /\ UNCHANGED <<start_states, validity_checker, planner_allocator,
                   setup_called, config_, paths_before>>
    /\ UNCHANGED propVars
    /\ UNCHANGED <<ctxVars, folVars, cfgVars>>

\* the expressions tried: a beginning, a body and an ending
Beginnings ==
    { <<>>, LinkPrefix, JointsPrefix,
      <<"l">>, <<"j">>, <<"(">>,
      <<"k", "n", "i", "l", "(">>,
      <<"(", "l", "i", "n", "k">>,
      <<"x", "l", "i", "n", "k", "(">>,
      <<"s", "t", "n", "i", "o", "j", "(">>,
      <<"t", "j", "o", "i", "n", "t", "s">> }

Bodies ==
    { <<>>, <<"e">>, <<"q">>, <<"f">>, <<"z">>, <<",">>,
      <<"q", ",", "f">>, <<"z", ",", "q">>, <<"q", ",", "q">> }

Endings == { <<>>, <<")">>, <<")", "x">> }

Expressions == {b \o m \o e : b \in Beginnings, m \in Bodies, e \in Endings}

NextProjection == \E s \in Expressions : setProjectionEvaluator(s)

SpecProjection == Init /\ [][NextProjection]_vars

\* ---------------------------------------------------------------------
\* configure() and the life cycle of a context
\* ---------------------------------------------------------------------

\* the configurations a specification may carry: spec_.config_ may name a
\* projection evaluator, a planner type and further planner parameters
Configs ==
    { EmptyConfig,
      [projection_evaluator |-> << <<" ">> \o LinkPrefix \o <<"e", ")", " ">> >>,
       type |-> FALSE, params |-> FALSE],
      [projection_evaluator |-> <<>>, type |-> TRUE, params |-> TRUE],
      [projection_evaluator |-> << <<"(", ")">> >>, type |-> TRUE,
       params |-> FALSE] }

\* useConfig(): the projection evaluator the configuration names is set,
\* then the planner allocator when it names a type; r is [pe, inst, proj,
\* alloc, threw], the fields afterwards
useConfig(cfg) ==
    LET named == cfg.projection_evaluator # <<>>
        s == IF named THEN trim_copy(cfg.projection_evaluator[1]) ELSE peval
        pe == IF named THEN getProjectionEvaluator(s) ELSE pe_ret
        threw == named /\ pe.kind = "out_of_range"
        rest == cfg.type \/ cfg.params
    IN  [peval |-> s,
         pe |-> pe,
         inst |-> IF named THEN pe.kind \notin {"none", "out_of_range"}
                  ELSE pe_installed,
         proj |-> IF named THEN ProjectionAfter(s) ELSE projection,
         alloc |-> IF ~threw /\ rest /\ cfg.type THEN TRUE
                   ELSE planner_allocator,
         threw |-> threw]

\* ModelBasedPlanningContext::configure; an exception of useConfig leaves it
\* before ompl_simple_setup_.setup()
configure ==
    /\ pc = "idle"
    /\ start_states' = 1
    /\ validity_checker' = TRUE
    /\ LET r == useConfig(config_)
       IN  /\ peval' = r.peval
           /\ pe_ret' = r.pe
           /\ pe_installed' = r.inst
           /\ projection' = r.proj
           /\ planner_allocator' = r.alloc
           /\ setup_called' = (~r.threw /\ goal # NoGoal /\ follow_samplers_ = 0)
    /\ cfg_op' = "configure"
    /\ ForgetGoalCall /\ ForgetAllocCall
    /\ UNCHANGED <<constraint_sampler_manager_, constraints_library_,
                   path_constraints_, path_constraints_msg_,
                   goal_constraints_, goal>>
    /\ UNCHANGED <<config_, paths_before>>
    /\ UNCHANGED propVars
    /\ UNCHANGED <<ctxVars, folVars>>

\* a context built over any specification and any of the configurations
InitLifeCycle ==
    /\ InitCtx /\ InitFollower /\ InitConstraints /\ InitSetup
    /\ constraint_sampler_manager_ \in BOOLEAN
    /\ constraints_library_ \in BOOLEAN
    /\ config_ \in Configs

\* setters, configure(), solve() with one planner run, clear() and sampler
\* allocations in any order; goal requests hold at most one message
NextLifeCycle ==
    \/ \E msg \in Constraints : setPathConstraints(msg)
    \/ \E goal_constraints \in {g \in GoalLists : Len(g) <= 1},
          path_constraints \in Constraints :
          \E sel \in [1..Len(goal_constraints) -> BOOLEAN] :
             /\ \A i \in 1..Len(goal_constraints) :
                   sel[i] => /\ constraint_sampler_manager_
                             /\ mergeConstraints(goal_constraints[i],
                                                 path_constraints) # {}
             /\ setGoalConstraints(goal_constraints, path_constraints,
                                   TRUE, sel)
    \/ configure
    \/ clear
    \/ \E own \in BOOLEAN, lib \in LibraryAnswers, mgr \in BOOLEAN :
          allocPathConstrainedSampler(own, lib, mgr)
    \/ SolveCall(1)
    \/ preSolve
    \/ SolveOnce
    \/ PlannerProgress
    \/ SingleReturn
    \/ Unregister
    \/ postSolve
    \/ Expire

SpecLifeCycle == InitLifeCycle /\ [][NextLifeCycle]_vars


\* ======================================================================
\* Properties
\* ======================================================================

\* the program state terminateSolve() could touch (history variables apart)
progVars ==
    <<pc, op, count, calls, ret, max_planning_threads_, ptc_, planners,
      solutions, ptcAlive, terminated, expired, result, batch_n, batch_i,
      found, status, batches, danglingDeref>>

\* a solve()/follow() call has returned a boolean to its caller
Returned == pc = "idle" /\ ret \in {"true", "false"}

\* ---------------------------------------------------------------- C1
\* C1: when Follower::follow returns EXACT_SOLUTION for n samplers it has
\* recorded one path of exactly n+2 waypoints, waypoint k being a state of
\* layer sets[k] (start first, goal last), and every two adjacent waypoints
\* are a pair for which checkMotion returned true during this call.
FollowerReturns == pc = "follower_return"

LayerStates(l) == {sets[l][j] : j \in 1..Len(sets[l])}

C1_ExactSolutionPath ==
    (FollowerReturns /\ fresult = "EXACT_SOLUTION") =>
        /\ Len(solutions) = 1
        /\ LET path == solutions[1] IN
           /\ Len(path) = follow_samplers_ + 2
           /\ \A k \in 0..goal_index : path[k + 1] \in LayerStates(k)
           /\ \A k \in 0..follow_samplers_ :
                 <<path[k + 1], path[k + 2]>> \in motionTrue

\* a solution through one sampler layer that the expansion loop had to
\* find: some waypoint is not the first state of its layer
C1_Witness ==
    /\ FollowerReturns /\ fresult = "EXACT_SOLUTION"
    /\ follow_samplers_ = 1
    /\ Len(solutions) = 1
    /\ \E k \in 0..goal_index : solutions[1][k + 1] # sets[k][1]

\* ---------------------------------------------------------------- C5
\* C5: when Follower::follow returns, with whatever status, every state it
\* got from cloneState or allocState has been freed, and none was freed
\* twice: no Follower-owned state is live.
C5_NoLiveStates ==
    FollowerReturns => (live = {} /\ ~badFree)

\* a TIMEOUT return after start, sampler-layer and goal states were cloned
C5_Witness ==
    /\ FollowerReturns /\ fresult = "TIMEOUT"
    /\ follow_samplers_ = 1
    /\ sets[0] # <<>> /\ sets[1] # <<>> /\ sets[2] # <<>>
    /\ live = {}

\* ---------------------------------------------------------------- C2
\* C2 (as claimed): if terminateSolve() was called at any moment after the
\* solve()/follow() call began, the call returns false and ptc_ is NULL
\* after it returned.
C2_TerminateMakesCallFail ==
    (Returned /\ termCalled) => (ret = "false" /\ ptc_ = NULL)

\* ---------------------------------------------------------------- C3
\* C3 (as claimed): ptc_ is non-null only while the call that registered it
\* is still executing with its stack-local condition alive, on every exit
\* path including a fault, and terminateSolve() never uses a condition that
\* went out of scope.
C3_RegisteredOnlyWhileAlive ==
    /\ ptc_ # NULL => (ptc_ = ptcAlive /\ pc # "idle")
    /\ ~danglingDeref

\* ---------------------------------------------------------------- C4
\* C4: terminateSolve() acts only on the condition registered at that
\* moment: with none registered it changes no program state; on a
\* registered live condition it sets that condition's flag and nothing
\* else, and repeating it changes nothing more; and every registration
\* installs a fresh, non-terminated condition, whatever terminateSolve()
\* calls came before.
C4_Step ==
    /\ (terminateSolve /\ ptc_ = NULL) => UNCHANGED progVars
    /\ (terminateSolve /\ ptc_ # NULL /\ ptc_ = ptcAlive) =>
          /\ terminated'
          /\ UNCHANGED <<pc, op, count, calls, ret, max_planning_threads_,
                         ptc_, planners, solutions, ptcAlive, expired,
                         result, batch_n, batch_i, found, status, batches,
                         danglingDeref>>
    /\ (terminateSolve /\ ptc_ # NULL /\ ptc_ = ptcAlive /\ terminated) =>
          UNCHANGED progVars
    /\ (ptc_' # ptc_ /\ ptc_' # NULL) =>
          (ptc_' = ptcAlive' /\ ptc_' = calls' /\ ~terminated')

C4_TerminateOnlyRegistered == [][C4_Step]_vars

\* a second call registered a fresh condition after a terminateSolve() that
\* found nothing registered
C4_Witness ==
    /\ termNull /\ calls = 2
    /\ ptc_ = 2 /\ ptcAlive = 2 /\ ~terminated
    /\ pc \in SolvingPcs

\* ---------------------------------------------------------------- C6
\* C6: the boolean solve() is about to return is, for count <= 1 and for
\* count <= max_planning_threads_, true exactly when the one planner run
\* returned EXACT_SOLUTION; for count > max_planning_threads_ it is the
\* conjunction of the results of the batches that were run, so one batch
\* without an exact solution makes it false.
AllExact(bs) == \A k \in 1..Len(bs) : bs[k].exact

C6_SuccessRule ==
    (pc = "postSolve" /\ op = "solve") =>
        IF count <= 1 \/ count <= max_planning_threads_
        THEN result <=> (status = "EXACT_SOLUTION")
        ELSE result <=> AllExact(batches)

\* two batches ran, the first succeeded, the second did not: solve is false
C6_Witness ==
    /\ pc = "postSolve" /\ op = "solve"
    /\ count > max_planning_threads_ /\ max_planning_threads_ >= 1
    /\ Len(batches) >= 2
    /\ batches[1].exact /\ ~batches[2].exact
    /\ ~result

\* ---------------------------------------------------------------- C7
\* C7: for count > max_planning_threads_ >= 1 and a condition that never
\* fires, the runs of the call are floor(count/max) batches of exactly max
\* planners and then one of count mod max planners if that is non-zero, the
\* pool holding exactly the batch's planners each time; their sizes add up
\* to count; and all of them run under the one condition registered for
\* the call.
Schedule(c, m) ==
    [k \in 1..(c \div m) |-> m] \o (IF c % m # 0 THEN <<c % m>> ELSE <<>>)

RECURSIVE SumSizes(_)
SumSizes(bs) == IF bs = <<>> THEN 0 ELSE Head(bs).size + SumSizes(Tail(bs))

BatchedPcs == {"batch_loop", "batch_solve", "remainder", "rem_solve"}

C7_BatchSchedule ==
    /\ (pc = "unregister" /\ op = "solve" /\ count > max_planning_threads_
        /\ max_planning_threads_ >= 1 /\ ~ptc) =>
          /\ [k \in 1..Len(batches) |-> batches[k].size]
                = Schedule(count, max_planning_threads_)
          /\ \A k \in 1..Len(batches) : batches[k].pool = batches[k].size
          /\ SumSizes(batches) = count
    /\ (pc \in BatchedPcs) => (ptc_ = calls /\ ptcAlive = calls)

\* count 3 with two threads ran the batches (2, 1) to the end
C7_Witness ==
    /\ pc = "unregister" /\ op = "solve" /\ ~ptc
    /\ count = 3 /\ max_planning_threads_ = 2
    /\ Len(batches) = 2

\* the last call was setGoalConstraints and it has returned
GoalCallReturned == cfg_op = "setGoalConstraints"

\* the positions of the request whose merged set the manager gave a
\* sampler for
Yielding == {i \in 1..Len(in_goals) : in_sel[i]}

\* C8: whenever no goal constraint set yields a constraint sampler (every
\* merged set is empty, or the manager is absent or gives no sampler for
\* any of them), setGoalConstraints returns false and, when an error output
\* was supplied, sets it to INVALID_GOAL_CONSTRAINTS.
C8_NoSamplerReportsInvalidGoal ==
    (GoalCallReturned /\ Yielding = {}) =>
        /\ sgc_ret = "false"
        /\ errorGiven => error = "INVALID_GOAL_CONSTRAINTS"

\* the i-th smallest member of a finite set of numbers
RECURSIVE Ascending(_)
Ascending(S) ==
    IF S = {} THEN <<>>
    ELSE LET m == CHOOSE x \in S : \A y \in S : x <= y
         IN  <<m>> \o Ascending(S \ {m})

\* the merged sets the manager gave a sampler for, in the order of the
\* request
ExpectedMembers ==
    LET order == Ascending(Yielding)
    IN  [k \in 1..Len(order) |->
            [from |-> order[k], atoms |-> in_goals[order[k]] \cup in_path]]

\* C9: setGoalConstraints returns true exactly when some non-empty merged
\* set got a sampler from the manager; the goal it installs then holds
\* exactly those sets in the order of the request, as the single
\* ConstrainedGoalSampler when there is one and as one
\* GoalSampleableRegionMux of all of them when there are more.
C9_GoalFromYieldingSets ==
    GoalCallReturned =>
        /\ (sgc_ret = "true") <=> (Yielding # {})
        /\ sgc_ret = "true" =>
              /\ goal.members = ExpectedMembers
              /\ \A k \in 1..Len(goal.members) : goal.members[k].atoms # {}
              /\ Cardinality(Yielding) = 1 => goal.type = "ConstrainedGoalSampler"
              /\ Cardinality(Yielding) > 1 => goal.type = "GoalSampleableRegionMux"

\* a request of two sets with a set skipped before a set that was kept, and
\* a request whose two sets were both kept
C9_Witness ==
    /\ GoalCallReturned /\ sgc_ret = "true"
    /\ Len(in_goals) = MaxGoals
    /\ goal.type = "ConstrainedGoalSampler"
    /\ goal.members[1].from = MaxGoals
    /\ Len(goal_constraints_) = MaxGoals

C9_WitnessMux ==
    /\ GoalCallReturned /\ sgc_ret = "true"
    /\ goal.type = "GoalSampleableRegionMux"
    /\ Len(goal.members) = MaxGoals

\* the last call was allocPathConstrainedSampler for the context's own
\* state space and it has returned
AllocReturned == cfg_op = "allocPathConstrainedSampler" /\ alloc_own

\* C10 as stated: on every allocation for the own state space, a sampler
\* of the library is returned without a query of the manager; when the
\* library yields nothing the manager (of a specification that has one) is
\* consulted; when the manager gives no sampler the default sampler is
\* returned.
C10_PriorityAsStated ==
    AllocReturned =>
        /\ libAnswer = "sampler" =>
              (alloc_ret = "approximation" /\ mgrAnswer = "not_asked")
        /\ (libAnswer # "sampler" /\ constraint_sampler_manager_) =>
              mgrAnswer # "not_asked"
        /\ (libAnswer # "sampler" /\ mgrAnswer = "sampler") =>
              alloc_ret = "constrained"
        /\ mgrAnswer = "none" => alloc_ret = "default"

\* C10 (amended): with path constraints set, the library is asked when the
\* specification has one, and its sampler is returned without a query of
\* the manager; when the library yields nothing the manager is consulted
\* if the specification has one, about the current path constraints, and
\* its sampler is returned; otherwise the default sampler is returned.
\* With no path constraints set neither is asked and the default sampler
\* is returned.
C10_PriorityUnderPathConstraints ==
    AllocReturned =>
        IF path_constraints_ = <<>>
        THEN /\ libAnswer = "not_asked" /\ mgrAnswer = "not_asked"
             /\ alloc_ret = "default"
        ELSE /\ (libAnswer # "not_asked") <=> constraints_library_
             /\ libAnswer = "sampler" =>
                   (alloc_ret = "approximation" /\ mgrAnswer = "not_asked")
             /\ libAnswer # "sampler" =>
                   /\ (mgrAnswer # "not_asked") <=> constraint_sampler_manager_
                   /\ mgrAnswer # "not_asked" => mgrQuery = path_constraints_[1]
                   /\ mgrAnswer = "sampler" => alloc_ret = "constrained"
                   /\ mgrAnswer # "sampler" => alloc_ret = "default"

\* the library was asked and yielded nothing, and the manager's sampler
\* for the path constraints was returned
C10_Witness ==
    /\ AllocReturned
    /\ path_constraints_ # <<>>
    /\ libAnswer \in {"no_approximation", "null_allocator", "null_sampler"}
    /\ mgrAnswer = "sampler"
    /\ alloc_ret = "constrained"

\* ---------------------------------------------------------------- C11
\* s begins with the whole of prefix
HasPrefix(s, prefix) ==
    Len(s) >= Len(prefix) /\ SubSeq(s, 1, Len(prefix)) = prefix

\* s has the form link(...) or joints(...)
HasForm(s) ==
    /\ HasPrefix(s, LinkPrefix) \/ HasPrefix(s, JointsPrefix)
    /\ s[Len(s)] = ")"

\* C11 (as claimed): for an expression that does not begin with exactly
\* "link(" or "joints(" and end with ")", getProjectionEvaluator gives no
\* evaluator and setProjectionEvaluator registers no projection.
C11_OnlyLinkAndJointsForms ==
    ~HasForm(peval) => (pe_ret = NoProjection /\ ~pe_installed)

\* ---------------------------------------------------------------- C12
\* a follow() call has returned to its caller (the calls of these
\* behaviours are all follow() calls; status is the Follower's status)
FollowReturned == Returned /\ status # "none"

\* C12: over any sequence of follow() calls, after each call returns the
\* problem definition holds exactly one solution path if the call returned
\* true (the Follower's status was EXACT_SOLUTION) and none otherwise, so
\* no path of an earlier call is visible after an unsuccessful one.
C12_PathsReflectLastFollow ==
    /\ FollowerReturns =>
          Len(solutions) = (IF fresult = "EXACT_SOLUTION" THEN 1 ELSE 0)
    /\ FollowReturned =>
          /\ (ret = "true") <=> (status = "EXACT_SOLUTION")
          /\ Len(solutions) = (IF ret = "true" THEN 1 ELSE 0)

\* an unsuccessful call that began while the path of an earlier successful
\* call was visible
C12_Witness ==
    /\ FollowReturned /\ ret = "false"
    /\ calls >= 2
    /\ paths_before = 1
    /\ solutions = <<>>

\* ---------------------------------------------------------------- C13
\* the context holds no start state, goal, validity checker, path
\* constraint set or goal constraint set
Cleared ==
    /\ start_states = 0
    /\ goal = NoGoal
    /\ ~validity_checker
    /\ path_constraints_ = <<>>
    /\ goal_constraints_ = <<>>

\* C13: whatever calls came before it, when clear() returns the context
\* holds no start state, goal, validity checker, path constraints or goal
\* constraints; the path constraints then stay absent until the next
\* setPathConstraints, and a sampler allocated for the own state space
\* while they are absent is the default sampler.
C13_ClearRestores ==
    /\ [](cfg_op = "clear" => Cleared)
    /\ []((AllocReturned /\ path_constraints_ = <<>>) => alloc_ret = "default")
    /\ [][(path_constraints_ = <<>> /\ path_constraints_' # <<>>)
             => cfg_op' = "setPathConstraints"]_vars

\* a default sampler allocated after a clear() that dropped path
\* constraints set earlier, on a context that was configured and solved on
\* before and has a library and a manager
C13_Witness ==
    /\ AllocReturned /\ alloc_ret = "default"
    /\ path_constraints_ = <<>> /\ path_constraints_msg_ # {}
    /\ constraints_library_ /\ constraint_sampler_manager_
    /\ start_states = 0 /\ ~validity_checker /\ goal = NoGoal
    /\ calls >= 1 /\ planner_allocator

\* ---------------------------------------------------------------- C14
\* the numbers k of the edges recorded from state j of layer l
EdgesOf(l, j) == {connections[l][j][e] : e \in 1..Len(connections[l][j])}

\* C14 (as claimed): at the start of the expansion loop and at the end of
\* each of its iterations, every pair of stored states of adjacent layers
\* has had its motion checked, and every pair whose check succeeded has a
\* recorded edge: each appended state was checked against every state of
\* the layer before the one it was appended to.
C14_EveryAdjacentPairChecked ==
    pc = "expand" =>
        \A l \in 0..follow_samplers_ :
            \A j \in 1..Len(sets[l]), k \in 1..Len(sets[l + 1]) :
                LET pair == <<sets[l][j], sets[l + 1][k]>>
                IN  /\ pair \in motionTrue \cup motionFalse
                    /\ pair \in motionTrue => k \in EdgesOf(l, j)

\* ---------------------------------------------------------------- C15
\* state j of layer l is reached from a state of layer 0 over recorded
\* forward edges
RECURSIVE StartReachable(_, _)
StartReachable(l, j) ==
    \/ l = 0
    \/ \E i \in 1..Len(sets[l - 1]) :
          j \in EdgesOf(l - 1, i) /\ StartReachable(l - 1, i)

\* C15: at the start of the expansion loop and at the end of each of its
\* iterations is_start[l][j] = 1 exactly when l = 0 or a chain of recorded
\* forward edges leads from a state of layer 0 to state j of layer l; and
\* no entry of is_start goes from 1 to 0 during a follow call.
C15_StartReachability ==
    /\ [](pc = "expand" =>
            \A l \in 0..goal_index : \A j \in 1..Len(sets[l]) :
                (is_start[l][j] = 1) <=> StartReachable(l, j))
    /\ [][(is_start # <<>> /\ is_start' # <<>>) =>
            \A l \in DOMAIN is_start : \A j \in 1..Len(is_start[l]) :
                is_start[l][j] = 1 => is_start'[l][j] = 1]_vars

\* after an iteration added a state: a start-reachable state in the
\* sampler layer and a goal state that is not start-reachable
C15_Witness ==
    /\ pc = "expand"
    /\ follow_samplers_ = 1
    /\ \E j \in 1..Len(sets[1]) : is_start[1][j] = 1
    /\ \E j \in 1..Len(sets[2]) : is_start[2][j] = 0
    /\ Added(sets) >= 1

\* ---------------------------------------------------------------- C16
\* the expansion phase was entered during the running Follower::follow
ExpansionEntered == is_start # <<>>

\* some state of the goal layer is start-reachable
GoalStartReachable ==
    \E j \in 1..Len(is_start[goal_index]) : is_start[goal_index][j] = 1

\* C16 (as claimed): the expansion phase returns TIMEOUT only without
\* success: when it ends with some goal state start-reachable, even one
\* that was so right after the initial propagation, follow returns
\* EXACT_SOLUTION with a recorded path.
C16_TimeoutOnlyWithoutSuccess ==
    (FollowerReturns /\ ExpansionEntered /\ GoalStartReachable) =>
        (fresult = "EXACT_SOLUTION" /\ Len(solutions) = 1)

\* ---------------------------------------------------------------- C17
\* C17: with a termination condition that stays true once true, the
\* first-sample phase is reached only with every layer non-empty: layer 0
\* holds the valid start states and each of the layers 1..n+1 exactly one
\* state, so each sets[i][0] is in range; and while layer i + 1 is being
\* seeded layer i is not empty, so the seed comes from projecting
\* sets[i].back() with a fresh sample as fallback.
C17_LayersSeededInOrder ==
    /\ pc = "first_sample" =>
          /\ Len(sets[0]) >= 1
          /\ \A l \in 1..goal_index : Len(sets[l]) = 1
    /\ (pc = "seed" /\ seed_i < follow_samplers_) =>
          /\ \A l \in 0..seed_i : sets[l] # <<>>
          /\ \A l \in (seed_i + 2)..goal_index : sets[l] = <<>>
          /\ Len(sets[seed_i + 1]) <= 1

\* the first-sample phase is reached through a sampler layer, from two
\* start states
C17_Witness ==
    /\ pc = "first_sample"
    /\ follow_samplers_ = 1
    /\ Len(sets[0]) = 2
    /\ samplerCalled

\* ---------------------------------------------------------------- C18
\* the edges recorded for element j of layer l, as a sequence
EdgeList(l, j) == connections[l][j]

\* C18: during a follow call the bookkeeping is consistent: connections has
\* n + 1 rows and row i has one entry per state of layer i; is_start, once
\* it exists, has one entry per state of every layer; every recorded edge
\* names a state of the next layer and was recorded after checkMotion on
\* that pair of states returned true.
C18_BookkeepingConsistent ==
    /\ connections # <<>> =>
          /\ DOMAIN connections = 0..follow_samplers_
          /\ \A i \in 0..follow_samplers_ :
                /\ Len(connections[i]) = Len(sets[i])
                /\ \A j \in 1..Len(connections[i]) :
                      \A e \in 1..Len(EdgeList(i, j)) :
                         /\ EdgeList(i, j)[e] \in 1..Len(sets[i + 1])
                         /\ <<sets[i][j], sets[i + 1][EdgeList(i, j)[e]]>>
                               \in motionTrue
    /\ is_start # <<>> =>
          /\ DOMAIN is_start = 0..goal_index
          /\ \A l \in 0..goal_index :
                /\ Len(is_start[l]) = Len(sets[l])
                /\ \A j \in 1..Len(is_start[l]) : is_start[l][j] \in {0, 1}

\* an expansion iteration appended a state and recorded an edge to it, on a
\* problem with two start states
C18_Witness ==
    /\ pc = "expand"
    /\ expandDraw
    /\ Len(sets[0]) = 2
    /\ \E i \in 0..follow_samplers_ :
          \E j \in 1..Len(connections[i]) :
             \E e \in 1..Len(EdgeList(i, j)) : EdgeList(i, j)[e] = 2

\* ---------------------------------------------------------------- C19
\* the first-sample checks were made in the running Follower::follow
FirstSamplesChecked == connections # <<>>

\* checkMotion(sets[l][0], sets[l+1][0]) returned true for every l in 0..n
FirstSamplesConnect ==
    \A l \in 0..follow_samplers_ : <<sets[l][1], sets[l + 1][1]>> \in motionTrue

\* the path sets[0][0], sets[1][0], ..., sets[n+1][0]
FirstSamplePath == [k \in 1..(goal_index + 1) |-> sets[k - 1][1]]

\* C19: when every pair of first states connects, follow skips the
\* expansion phase: no further sample or goal state is drawn, the path of
\* the first states is recorded and EXACT_SOLUTION is returned, whatever the
\* termination condition says by then; when some pair does not connect the
\* expansion phase is entered with the first-sample edges that succeeded.
C19_FirstSamplesShortCut ==
    /\ (FirstSamplesChecked /\ pc # "expand_init") =>
          (FirstSamplesConnect <=> is_start = <<>>)
    /\ (FirstSamplesChecked /\ FirstSamplesConnect) =>
          /\ pc \in {"cleanup", "follower_return"}
          /\ fresult = "EXACT_SOLUTION"
          /\ ~expandDraw
          /\ Len(solutions) = 1
          /\ solutions[Len(solutions)] = FirstSamplePath
    /\ (FirstSamplesChecked /\ ~FirstSamplesConnect) =>
          /\ pc \in {"expand_init", "expand", "cleanup", "follower_return"}
          /\ \A l \in 0..follow_samplers_ :
                /\ <<sets[l][1], sets[l + 1][1]>> \in motionTrue \cup motionFalse
                /\ <<sets[l][1], sets[l + 1][1]>> \in motionTrue =>
                      (connections[l][1] # <<>> /\ connections[l][1][1] = 1)

\* the short cut was taken through a sampler layer although the
\* termination condition had fired by the time follow returned
C19_Witness ==
    /\ FollowerReturns
    /\ FirstSamplesChecked /\ FirstSamplesConnect
    /\ follow_samplers_ = 1
    /\ expired
    /\ fresult = "EXACT_SOLUTION"

\* the expansion phase was entered with one first-sample edge kept
C19_WitnessExpansion ==
    /\ pc = "expand"
    /\ follow_samplers_ = 1
    /\ connections[0][1] # <<>>
    /\ connections[1][1] = <<>>

\* ---------------------------------------------------------------- C20
\* no checkMotion was asked in the running Follower::follow
NoMotionCheck == motionTrue = {} /\ motionFalse = {}

\* Follower::follow is past its last decision and ends without success
\* before the first-sample phase
EarlyFailure ==
    /\ pc \in {"cleanup", "follower_return"}
    /\ fresult # "EXACT_SOLUTION"
    /\ connections = <<>>

\* C20: follow reports its failures in a fixed order and without doing the
\* later work: UNRECOGNIZED_GOAL_TYPE before any start state is cloned or
\* any state allocated; INVALID_START before any sampler is called; TIMEOUT
\* from the seeding phase without drawing a goal state; INVALID_GOAL without
\* any motion check; and none of them records a solution path.
C20_FailurePrecedence ==
    EarlyFailure =>
       /\ fresult \in {"UNRECOGNIZED_GOAL_TYPE", "INVALID_START", "TIMEOUT",
                       "INVALID_GOAL"}
       /\ solutions = <<>>
       /\ NoMotionCheck
       /\ ~expandDraw
       /\ fresult = "UNRECOGNIZED_GOAL_TYPE" =>
             /\ sets = <<>> /\ work_area = NULL
             /\ live = {} /\ nextId = 1
             /\ ~samplerCalled /\ ~goalDrawn
       /\ fresult = "INVALID_START" =>
             /\ sets # <<>> /\ sets[0] = <<>>
             /\ work_area = NULL /\ live = {}
             /\ ~samplerCalled /\ ~goalDrawn
       /\ fresult = "TIMEOUT" =>
             /\ sets[0] # <<>> /\ work_area # NULL
             /\ ptc
             /\ ~goalDrawn /\ sets[goal_index] = <<>>
       /\ fresult = "INVALID_GOAL" =>
             /\ \A l \in 0..follow_samplers_ : sets[l] # <<>>
             /\ goalDrawn /\ sets[goal_index] = <<>>

\* termination fired while a sampler layer was being seeded
C20_Witness ==
    /\ FollowerReturns
    /\ fresult = "TIMEOUT"
    /\ connections = <<>>
    /\ follow_samplers_ = 1
    /\ samplerCalled
    /\ sets[1] = <<>>

\* each of the other three failures is returned
C20_WitnessGoalType == FollowerReturns /\ fresult = "UNRECOGNIZED_GOAL_TYPE"
C20_WitnessStart == FollowerReturns /\ fresult = "INVALID_START"
C20_WitnessGoal ==
    FollowerReturns /\ fresult = "INVALID_GOAL" /\ samplerCalled

\* ---------------------------------------------------------------- C21
\* C21 (as claimed): once adding_goals has turned false no iteration of the
\* expansion loop enters the goal branch again: pis_.nextGoal() is not
\* re-attempted, so every later iteration samples an intermediate layer.
C21_NoGoalRetryAfterExhaustion == ~goalRetried

\* ---------------------------------------------------------------- C22
\* C22: when every call made by Follower::follow returns and the
\* termination condition eventually becomes and stays true, every
\* Follower::follow call that was begun eventually returns (the recursions
\* of propagateStartInfo and findSolutionPath are evaluated to their end on
\* the way).
C22_FollowEventuallyReturns ==
    (pc = "follower_begin") ~> (pc = "follower_return")

\* follow returned from the expansion loop after the termination condition
\* fired, with start information propagated through a sampler layer
C22_Witness ==
    /\ FollowerReturns
    /\ fresult = "TIMEOUT"
    /\ expired
    /\ follow_samplers_ = 1
    /\ is_start # <<>>
    /\ is_start[1][1] = 1

\* ---------------------------------------------------------------- C23
\* the propagation done breadth first with a work queue of <<layer, element>>
\* pairs: returns is_start
RECURSIVE BreadthFirstDrain(_, _, _, _)
BreadthFirstDrain(queue, seen, iss, conn) ==
    IF queue = <<>>
    THEN iss
    ELSE LET l == Head(queue)[1]
             j == Head(queue)[2]
         IN IF ConnSize(conn) <= l
            THEN BreadthFirstDrain(Tail(queue), seen, iss, conn)
            ELSE LET c == conn[l][j]
                     succ == [i \in 1..Len(c) |-> <<l + 1, c[i]>>]
                     fresh == SelectSeq(succ, LAMBDA x : x \notin seen)
                 IN BreadthFirstDrain(
                        Tail(queue) \o fresh,
                        seen \cup {succ[i] : i \in 1..Len(c)},
                        [iss EXCEPT ![l + 1] =
                            [k \in 1..Len(@) |->
                                IF \E i \in 1..Len(c) : c[i] = k
                                THEN 1 ELSE @[k]]],
                        conn)

propagateBreadthFirst(set_index, elem_index, iss, conn) ==
    BreadthFirstDrain(<< <<set_index, elem_index>> >>,
                      {<<set_index, elem_index>>}, iss, conn)

\* element k of layer l is reached from element from_j of layer from_l over
\* one or more recorded edges
RECURSIVE ForwardReachable(_, _, _, _)
ForwardReachable(from_l, from_j, l, k) ==
    /\ l > from_l
    /\ \E i \in 1..PropLayer :
          /\ \E e \in 1..Len(connections[l - 1][i]) :
                connections[l - 1][i][e] = k
          /\ \/ (l - 1 = from_l /\ i = from_j)
             \/ ForwardReachable(from_l, from_j, l - 1, i)

\* C23: for every connection graph, every is_start and every starting
\* element the recursive propagateStartInfo leaves is_start exactly as the
\* breadth-first propagation with a work queue does: the states reached
\* from the starting element over recorded edges are 1 and every other
\* entry is as it was; and its calls never nest deeper than n + 2.
C23_RecursionEqualsBreadthFirst ==
    pc = "propagated" =>
       /\ is_start = propagateBreadthFirst(prop_at[1], prop_at[2],
                                           prop_before, connections)
       /\ \A l \in 0..goal_index : \A k \in 1..PropLayer :
             is_start[l][k] =
                IF ForwardReachable(prop_at[1], prop_at[2], l, k)
                THEN 1 ELSE prop_before[l][k]
       /\ prop_depth <= follow_samplers_ + 2

\* a call on an element of layer 0 that nested n + 2 deep, went through a
\* state that was marked already and marked a goal state
C23_Witness ==
    /\ pc = "propagated"
    /\ follow_samplers_ = 1
    /\ prop_at = <<0, 1>>
    /\ prop_depth = 3
    /\ prop_before[1][1] = 1 /\ prop_before[1][2] = 0
    /\ connections[0][1] = <<1>>
    /\ connections[1][1] # <<>>
    /\ is_start[2] # prop_before[2]

\* ---------------------------------------------------------------- C24
\* some planner run or batch of the running solve() call was executed and
\* returned EXACT_SOLUTION
SomeRunExact ==
    \/ (count <= 1 /\ IsExact(status))
    \/ \E k \in 1..Len(batches) : batches[k].exact

\* C24 (as claimed): solve(timeout, count) returns true only if a planner
\* run or batch was executed during the call and returned EXACT_SOLUTION,
\* also in the batched branch when the termination condition fired before
\* the first batch (max_planning_threads_ >= 1, so no division by zero is
\* involved).
C24_TrueOnlyAfterExactRun ==
    (pc = "postSolve" /\ op = "solve" /\ result
        /\ max_planning_threads_ >= 1) => SomeRunExact

\* ---------------------------------------------------------------- C25
\* C25 (as claimed): solve(timeout, count) with count >= 2 computes
\* count / max_planning_threads_ and count % max_planning_threads_ only with
\* max_planning_threads_ >= 1, also on a freshly constructed context.
C25_NoDivisionByZero ==
    (op = "solve" /\ count >= 2
        /\ pc \in {"batch_loop", "batch_solve", "remainder", "rem_solve",
                   "crashed"})
       => max_planning_threads_ >= 1

\* ---------------------------------------------------------------- C26
\* C26 (as claimed): getProjectionEvaluator is total: for every string,
\* also one shorter than the prefix it is parsed against and ending with
\* ")", it gives an evaluator or a null evaluator and takes no substring
\* at a position beyond the end of the string.
C26_GetProjectionEvaluatorTotal == pe_ret.kind # "out_of_range"

\* ---------------------------------------------------------------- C27
\* C27 (as claimed): after setGoalConstraints returned false, on either
\* failure path, the goal of ompl_simple_setup_ is null, so no goal of an
\* earlier successful call stays installed.
C27_NoGoalAfterFailure ==
    (GoalCallReturned /\ sgc_ret = "false") => goal = NoGoal

====
